---- MODULE Spec2Model ----
(***************************************************************************)
(* A model of the magpie-retro Scrabble engine: the board with its cross-  *)
(* sets and extension sets, the lexicon graph, the leave evaluator, the    *)
(* move generator (shadow pass, anchor heap, GADDAG recursion, best-move   *)
(* recorder, exchange generator) and the scoring used by the game logic.   *)
(*                                                                         *)
(* Bit masks of the C code (CrossSet, rack_bits) are modelled as sets of   *)
(* machine letters: bit i set  <=>  i is in the set.                       *)
(***************************************************************************)
EXTENDS Integers, Sequences, FiniteSets, TLC

(***************************************************************************)
(* Constants of the program                                                *)
(***************************************************************************)
BOARD_DIM == 15
BOARD_SIZE == 225
RACK_SIZE == 7
ALPHABET_SIZE == 27
BLANK_MASK == 128
PLAYED_THROUGH_MARKER == 255
ALPHABET_EMPTY_SQUARE_MARKER == 0
BLANK_MACHINE_LETTER == 0
ML_SEPARATOR == 0
DIR_HORIZONTAL == 0
DIR_VERTICAL == 1
GAME_EVENT_TILE_PLACEMENT_MOVE == 0
GAME_EVENT_EXCHANGE == 2
BONUS_NONE == 0
BONUS_DL == 1
BONUS_TL == 2
BONUS_DW == 3
BONUS_TW == 4
BONUS_CENTER == 5
EQUITY_INITIAL_VALUE == -32767
BINGO_BONUS == 400
NON_OUTPLAY_CONSTANT_PENALTY == 80
MAX_ANCHORS == 200
TRIVIAL_CROSS_SET == 1..31
EMPTY_CROSS_SET == {}

Squares == 0..(BOARD_SIZE - 1)
Lanes == 0..(BOARD_DIM - 1)

IS_BLANKED(ml) == ml >= BLANK_MASK

UNBLANKED(ml) == IF ml >= BLANK_MASK THEN ml - BLANK_MASK ELSE ml

BLANKED(ml) == IF ml >= BLANK_MASK THEN ml ELSE ml + BLANK_MASK

Reverse(s) == [i \in 1..Len(s) |-> s[Len(s) + 1 - i]]

(* Tile values in points (board.c) *)
TILE_SCORES ==
  <<0, 1, 3, 3, 2, 1, 4, 2, 4, 1, 8, 5, 1, 3, 1, 1, 3, 10, 1, 1, 1, 1, 4, 4, 8, 4, 10>>

(* Tile values in eighths of a point (movegen.c) *)
tile_scores == [i \in 1..ALPHABET_SIZE |-> TILE_SCORES[i] * 8]

IS_VOWEL == {1, 5, 9, 15, 21}

BONUS_QUARTER ==
  << BONUS_TW, BONUS_NONE, BONUS_NONE, BONUS_DL, BONUS_NONE, BONUS_NONE, BONUS_NONE, BONUS_TW,
     BONUS_NONE, BONUS_DW, BONUS_NONE, BONUS_NONE, BONUS_NONE, BONUS_TL, BONUS_NONE, BONUS_NONE,
     BONUS_NONE, BONUS_NONE, BONUS_DW, BONUS_NONE, BONUS_NONE, BONUS_NONE, BONUS_DL, BONUS_NONE,
     BONUS_DL, BONUS_NONE, BONUS_NONE, BONUS_DW, BONUS_NONE, BONUS_NONE, BONUS_NONE, BONUS_DL,
     BONUS_NONE, BONUS_NONE, BONUS_NONE, BONUS_NONE, BONUS_DW, BONUS_NONE, BONUS_NONE, BONUS_NONE,
     BONUS_NONE, BONUS_TL, BONUS_NONE, BONUS_NONE, BONUS_NONE, BONUS_TL, BONUS_NONE, BONUS_NONE,
     BONUS_NONE, BONUS_NONE, BONUS_DL, BONUS_NONE, BONUS_NONE, BONUS_NONE, BONUS_DL, BONUS_NONE,
     BONUS_TW, BONUS_NONE, BONUS_NONE, BONUS_DL, BONUS_NONE, BONUS_NONE, BONUS_NONE, BONUS_CENTER >>

(* init_bonus_layout: the full board mirrored from the quarter *)
BONUS_LAYOUT ==
  [i \in Squares |->
     LET row == i \div BOARD_DIM
         col == i % BOARD_DIM
         qr == IF row < 8 THEN row ELSE 14 - row
         qc == IF col < 8 THEN col ELSE 14 - col
     IN BONUS_QUARTER[qr * 8 + qc + 1]]

get_letter_mult(bonus) ==
  IF bonus = BONUS_DL THEN 2 ELSE IF bonus = BONUS_TL THEN 3 ELSE 1

get_word_mult(bonus) ==
  IF bonus = BONUS_DW \/ bonus = BONUS_CENTER THEN 2 ELSE IF bonus = BONUS_TW THEN 3 ELSE 1

get_tile_score(ml) == IF IS_BLANKED(ml) THEN 0 ELSE tile_scores[ml + 1]

(***************************************************************************)
(* The lexicon graph (kwg.h, kwg.c).  A node is a 32-bit word: tile in    *)
(* bits 31..24, accepts in bit 23, is-end in bit 22, arc index in bits     *)
(* 21..0.  Node 0 points to the DAWG root, node 1 to the GADDAG root.      *)
(* The array below holds the words AD, ADD, ADDAXES, DAD, DE, ED, EX.      *)
(***************************************************************************)
KWGNodes ==
  << 4194306, 4194309, 16777226, 67108875, 88080397, 16777231, 67108881, 83886101,
     318767128, 406847513, 79691803, 16777244, 96468992, 75497472, 415236096, 29,
     71303198, 32, 25165858, 67108900, 96468992, 37, 75497472, 406847527,
     88080424, 16777257, 96468992, 79691818, 79691776, 79691819, 44, 71303213,
     16777262, 96468992, 47, 79691776, 29360176, 75497472, 415236096, 20971569,
     406847538, 71303219, 20971572, 79691829, 79691776, 20971574, 79691776, 79691831,
     4194360, 71303225, 20971578, 71303227, 406847548, 20971581, 4194366, 20971583,
     20971584, 71303233, 71303234, 20971587, 88080452, 406847557, 406847558, 406847559,
     406847560, 20971593, 71303242, 4194379, 331350016, 88080460, 88080461, 88080462,
     88080463, 4194384, 29360128, 88080465, 331350016, 331350016, 331350016, 331350016,
     331350016, 331350016 >>

kwg_get_node(kwg, index) == kwg[index + 1]

KWG_TILE(node) == node \div 16777216

KWG_ACCEPTS(node) == (node \div 8388608) % 2 = 1

KWG_IS_END(node) == (node \div 4194304) % 2 = 1

KWG_ARC_INDEX(node) == node % 4194304

kwg_get_dawg_root(kwg) == KWG_ARC_INDEX(kwg_get_node(kwg, 0))

kwg_get_gaddag_root(kwg) == KWG_ARC_INDEX(kwg_get_node(kwg, 1))

RECURSIVE kwg_follow_arc(_, _, _)
kwg_follow_arc(kwg, node_index, letter) ==
  LET node == kwg_get_node(kwg, node_index)
  IN IF KWG_TILE(node) = letter THEN KWG_ARC_INDEX(node)
     ELSE IF KWG_IS_END(node) THEN 0
     ELSE kwg_follow_arc(kwg, node_index + 1, letter)

RECURSIVE kwg_letter_accepts(_, _, _)
kwg_letter_accepts(kwg, node_index, letter) ==
  LET node == kwg_get_node(kwg, node_index)
  IN IF KWG_TILE(node) = letter THEN KWG_ACCEPTS(node)
     ELSE IF KWG_IS_END(node) THEN FALSE
     ELSE kwg_letter_accepts(kwg, node_index + 1, letter)

(* The indices of the sibling list that starts at node_index *)
RECURSIVE SiblingList(_, _)
SiblingList(kwg, node_index) ==
  IF KWG_IS_END(kwg_get_node(kwg, node_index)) THEN <<node_index>>
  ELSE <<node_index>> \o SiblingList(kwg, node_index + 1)

(* kwg_get_letter_sets: [letter_set, ext_set] of a sibling list *)
kwg_get_letter_sets(kwg, node_index) ==
  LET sibs == SiblingList(kwg, node_index)
      tiles == {i \in 1..Len(sibs) : KWG_TILE(kwg_get_node(kwg, sibs[i])) # 0}
  IN [letter_set |-> {KWG_TILE(kwg_get_node(kwg, sibs[i])) :
                        i \in {j \in tiles : KWG_ACCEPTS(kwg_get_node(kwg, sibs[j]))}},
      ext_set |-> {KWG_TILE(kwg_get_node(kwg, sibs[i])) : i \in tiles}]

(* Follow the tiles of s from position i down to 1 (reversed traversal) *)
RECURSIVE FollowReversed(_, _, _, _)
FollowReversed(kwg, node_index, s, i) ==
  IF i = 0 \/ node_index = 0 THEN node_index
  ELSE FollowReversed(kwg, kwg_follow_arc(kwg, node_index, UNBLANKED(s[i])), s, i - 1)

(* compute_extension_sets: [leftx, rightx] *)
compute_extension_sets(kwg, left_tiles, right_tiles) ==
  LET lnode == FollowReversed(kwg, kwg_get_gaddag_root(kwg), left_tiles, Len(left_tiles))
      sep_index == IF lnode # 0 THEN kwg_follow_arc(kwg, lnode, ML_SEPARATOR) ELSE 0
      rnode == FollowReversed(kwg, kwg_get_gaddag_root(kwg), right_tiles, Len(right_tiles))
  IN [rightx |-> IF Len(left_tiles) = 0 THEN TRIVIAL_CROSS_SET
                 ELSE IF lnode # 0 /\ sep_index # 0
                      THEN kwg_get_letter_sets(kwg, sep_index).ext_set
                 ELSE {},
      leftx |-> IF Len(right_tiles) = 0 THEN TRIVIAL_CROSS_SET
                ELSE IF rnode # 0 THEN kwg_get_letter_sets(kwg, rnode).ext_set
                ELSE {}]

(* Follow the prefix forward through the DAWG; 0 when it leaves the graph *)
RECURSIVE FollowPrefix(_, _, _, _)
FollowPrefix(kwg, node_index, prefix, i) ==
  IF i > Len(prefix) THEN node_index
  ELSE LET next == kwg_follow_arc(kwg, node_index, UNBLANKED(prefix[i]))
       IN IF next = 0 THEN 0 ELSE FollowPrefix(kwg, next, prefix, i + 1)

(* The suffix test that stops at the first letter of the suffix *)
SuffixFirstLetterOnly(kwg, suf_node, suffix, j) ==
  \E i \in 1..Len(SiblingList(kwg, suf_node)) :
    KWG_TILE(kwg_get_node(kwg, SiblingList(kwg, suf_node)[i])) = UNBLANKED(suffix[j])

(* The inner suffix loop of compute_cross_set: does suffix[j..] lead from *)
(* the sibling list suf_node to an accepting arc?                         *)
RECURSIVE SuffixAccepts(_, _, _, _)
SuffixAccepts(kwg, suf_node, suffix, j) ==
  LET sibs == SiblingList(kwg, suf_node)
      hits == {i \in 1..Len(sibs) :
                 KWG_TILE(kwg_get_node(kwg, sibs[i])) = UNBLANKED(suffix[j])}
  IN IF hits = {} THEN FALSE
     ELSE LET n == kwg_get_node(kwg, sibs[CHOOSE i \in hits : \A k \in hits : i <= k])
          IN IF j = Len(suffix) THEN KWG_ACCEPTS(n)
             ELSE IF KWG_ARC_INDEX(n) = 0 THEN FALSE
             ELSE SuffixAccepts(kwg, KWG_ARC_INDEX(n), suffix, j + 1)

RECURSIVE SumTileScores(_, _)
SumTileScores(s, i) ==
  IF i > Len(s) THEN 0
  ELSE (IF IS_BLANKED(s[i]) THEN 0 ELSE TILE_SCORES[UNBLANKED(s[i]) + 1])
       + SumTileScores(s, i + 1)

(* compute_cross_set: [set, score]; the score is summed from TILE_SCORES *)
compute_cross_set(kwg, prefix, suffix) ==
  IF Len(prefix) = 0 /\ Len(suffix) = 0
  THEN [set |-> TRIVIAL_CROSS_SET, score |-> -1]
  ELSE
    LET cross_score == SumTileScores(prefix, 1) + SumTileScores(suffix, 1)
        node_index == FollowPrefix(kwg, kwg_get_dawg_root(kwg), prefix, 1)
        sibs == SiblingList(kwg, node_index)
        ok(node) ==
          /\ KWG_TILE(node) # 0
          /\ IF Len(suffix) = 0 THEN KWG_ACCEPTS(node)
             ELSE /\ KWG_ARC_INDEX(node) # 0
                  /\ SuffixAccepts(kwg, KWG_ARC_INDEX(node), suffix, 1)
    IN [set |-> IF node_index = 0 THEN {}
                ELSE {KWG_TILE(kwg_get_node(kwg, sibs[i])) :
                        i \in {j \in 1..Len(sibs) : ok(kwg_get_node(kwg, sibs[j]))}},
        score |-> cross_score]

(* kwg_is_valid_word *)
kwg_is_valid_word(kwg, letters) ==
  /\ Len(letters) >= 2
  /\ LET pre == SubSeq(letters, 1, Len(letters) - 1)
         node_index == FollowPrefix(kwg, kwg_get_dawg_root(kwg), pre, 1)
     IN /\ node_index # 0
        /\ kwg_letter_accepts(kwg, node_index, UNBLANKED(letters[Len(letters)]))

(***************************************************************************)
(* The board (scrabble.h Board, board.c).  h_* arrays are row-major        *)
(* (row*15+col), v_* arrays are transposed (col*15+row).                   *)
(***************************************************************************)
HIdx(row, col) == row * BOARD_DIM + col

VIdx(row, col) == col * BOARD_DIM + row

(* A function written out as the table of its values *)
Table(f) == f @@ f

(* Operator arguments are evaluated on demand.  Ready(st) asks for the    *)
(* state st: a loop uses it to finish the steps before its next step, in  *)
(* the order of the sequential code.                                      *)
Ready(st) == DOMAIN st = DOMAIN st

board_init ==
  [h_letters |-> Table([i \in Squares |-> ALPHABET_EMPTY_SQUARE_MARKER]),
   h_cross_sets |-> Table([i \in Squares |-> TRIVIAL_CROSS_SET]),
   h_cross_scores |-> Table([i \in Squares |-> -1]),
   h_leftx |-> Table([i \in Squares |-> TRIVIAL_CROSS_SET]),
   h_rightx |-> Table([i \in Squares |-> TRIVIAL_CROSS_SET]),
   v_letters |-> Table([i \in Squares |-> ALPHABET_EMPTY_SQUARE_MARKER]),
   v_cross_sets |-> Table([i \in Squares |-> TRIVIAL_CROSS_SET]),
   v_cross_scores |-> Table([i \in Squares |-> -1]),
   v_leftx |-> Table([i \in Squares |-> TRIVIAL_CROSS_SET]),
   v_rightx |-> Table([i \in Squares |-> TRIVIAL_CROSS_SET]),
   tiles_played |-> 0]

board_is_empty(b, row, col) == b.h_letters[HIdx(row, col)] = ALPHABET_EMPTY_SQUARE_MARKER

(* The placement that writes both views at the row-major index *)
PlaceTileUntransposed(b, row, col, tile) ==
  [b EXCEPT !.tiles_played = IF board_is_empty(b, row, col) THEN @ + 1 ELSE @,
            !.h_letters[HIdx(row, col)] = tile,
            !.v_letters[HIdx(row, col)] = tile]

board_place_tile(b, row, col, tile) ==
  [b EXCEPT !.tiles_played = IF board_is_empty(b, row, col) THEN @ + 1 ELSE @,
            !.h_letters[HIdx(row, col)] = tile,
            !.v_letters[VIdx(row, col)] = tile]

(* The tiles met walking from (row, col) in steps of (dr, dc), the start  *)
(* excluded, up to the first empty square or the edge, in walking order.  *)
RECURSIVE ScanRun(_, _, _, _, _)
ScanRun(b, row, col, dr, dc) ==
  LET r == row + dr
      c == col + dc
  IN IF r < 0 \/ r >= BOARD_DIM \/ c < 0 \/ c >= BOARD_DIM THEN <<>>
     ELSE IF b.h_letters[HIdx(r, c)] = ALPHABET_EMPTY_SQUARE_MARKER THEN <<>>
     ELSE <<b.h_letters[HIdx(r, c)]>> \o ScanRun(b, r, c, dr, dc)

ClearCrossSetsOnly(b, row, col) ==
  [b EXCEPT !.h_cross_sets[HIdx(row, col)] = {},
            !.v_cross_sets[VIdx(row, col)] = {}]

clear_square_sets(b, row, col) ==
  [b EXCEPT !.h_cross_sets[HIdx(row, col)] = {},
            !.h_leftx[HIdx(row, col)] = {},
            !.h_rightx[HIdx(row, col)] = {},
            !.v_cross_sets[VIdx(row, col)] = {},
            !.v_leftx[VIdx(row, col)] = {},
            !.v_rightx[VIdx(row, col)] = {}]

(* update_square_vertical: h_cross_sets, h_cross_scores, v_leftx, v_rightx *)
update_square_vertical(b, kwg, row, col) ==
  IF row < 0 \/ row >= BOARD_DIM \/ col < 0 \/ col >= BOARD_DIM THEN b
  ELSE IF ~board_is_empty(b, row, col) THEN clear_square_sets(b, row, col)
  ELSE
    LET prefix == Reverse(ScanRun(b, row, col, -1, 0))
        suffix == ScanRun(b, row, col, 1, 0)
        cs == compute_cross_set(kwg, prefix, suffix)
        ext == compute_extension_sets(kwg, prefix, suffix)
    IN [b EXCEPT !.h_cross_sets[HIdx(row, col)] = cs.set,
                 !.h_cross_scores[HIdx(row, col)] = cs.score,
                 !.v_leftx[VIdx(row, col)] = ext.leftx,
                 !.v_rightx[VIdx(row, col)] = ext.rightx]

(* update_square_horizontal: v_cross_sets, v_cross_scores, h_leftx, h_rightx *)
update_square_horizontal(b, kwg, row, col) ==
  IF row < 0 \/ row >= BOARD_DIM \/ col < 0 \/ col >= BOARD_DIM THEN b
  ELSE IF ~board_is_empty(b, row, col) THEN clear_square_sets(b, row, col)
  ELSE
    LET prefix == Reverse(ScanRun(b, row, col, 0, -1))
        suffix == ScanRun(b, row, col, 0, 1)
        cs == compute_cross_set(kwg, prefix, suffix)
        ext == compute_extension_sets(kwg, prefix, suffix)
    IN [b EXCEPT !.v_cross_sets[VIdx(row, col)] = cs.set,
                 !.v_cross_scores[VIdx(row, col)] = cs.score,
                 !.h_leftx[HIdx(row, col)] = ext.leftx,
                 !.h_rightx[HIdx(row, col)] = ext.rightx]

(* board_update_cross_sets: the full rebuild, one square after another   *)
(* (squares lo..hi in index order, the range halved to keep the          *)
(* evaluation shallow).                                                   *)
RECURSIVE UpdateAllFrom(_, _, _, _)
UpdateAllFrom(b, kwg, lo, hi) ==
  IF lo = hi
  THEN LET row == lo \div BOARD_DIM
           col == lo % BOARD_DIM
       IN IF ~board_is_empty(b, row, col) THEN clear_square_sets(b, row, col)
          ELSE update_square_horizontal(update_square_vertical(b, kwg, row, col),
                                        kwg, row, col)
  ELSE LET mid == (lo + hi) \div 2
           first == UpdateAllFrom(b, kwg, lo, mid)
       IN IF Ready(first) THEN UpdateAllFrom(first, kwg, mid + 1, hi) ELSE first

board_update_cross_sets(b, kwg) == UpdateAllFrom(b, kwg, 0, BOARD_SIZE - 1)

(* find_word_edge: the lane coordinate of the last tile in direction step *)
RECURSIVE find_word_edge(_, _, _, _, _)
find_word_edge(b, row, col, dir, step) ==
  LET r == IF dir = DIR_HORIZONTAL THEN row ELSE row + step
      c == IF dir = DIR_HORIZONTAL THEN col + step ELSE col
      here == IF dir = DIR_HORIZONTAL THEN col ELSE row
  IN IF r < 0 \/ r >= BOARD_DIM \/ c < 0 \/ c >= BOARD_DIM THEN here
     ELSE IF b.h_letters[HIdx(r, c)] = ALPHABET_EMPTY_SQUARE_MARKER THEN here
     ELSE find_word_edge(b, r, c, dir, step)

(* First loop of board_update_cross_sets_for_move: the main lane *)
RECURSIVE UpdateMainLane(_, _, _, _, _)
UpdateMainLane(b, kwg, move, k, last) ==
  IF k > last THEN b
  ELSE LET nb == IF k < 0 \/ k >= BOARD_DIM THEN b
                 ELSE IF move.dir = DIR_HORIZONTAL
                      THEN update_square_horizontal(b, kwg, move.row_start, k)
                      ELSE update_square_vertical(b, kwg, k, move.col_start)
       IN UpdateMainLane(nb, kwg, move, k + 1, last)

(* Second loop: the two ends of the cross-word of every fresh tile *)
RECURSIVE UpdateCrossEnds(_, _, _, _)
UpdateCrossEnds(b, kwg, move, i) ==
  IF i >= move.tiles_length THEN b
  ELSE IF move.tiles[i + 1] = PLAYED_THROUGH_MARKER THEN UpdateCrossEnds(b, kwg, move, i + 1)
  ELSE IF move.dir = DIR_HORIZONTAL
  THEN LET c == move.col_start + i
           top_row == find_word_edge(b, move.row_start, c, DIR_VERTICAL, -1)
           bot_row == find_word_edge(b, move.row_start, c, DIR_VERTICAL, 1)
       IN UpdateCrossEnds(
            update_square_vertical(update_square_vertical(b, kwg, top_row - 1, c),
                                   kwg, bot_row + 1, c),
            kwg, move, i + 1)
  ELSE LET r == move.row_start + i
           left_col == find_word_edge(b, r, move.col_start, DIR_HORIZONTAL, -1)
           right_col == find_word_edge(b, r, move.col_start, DIR_HORIZONTAL, 1)
       IN UpdateCrossEnds(
            update_square_horizontal(update_square_horizontal(b, kwg, r, left_col - 1),
                                     kwg, r, right_col + 1),
            kwg, move, i + 1)

(* The update that stops after the main lane *)
MainLaneUpdateOnly(b, kwg, move) ==
  LET start == IF move.dir = DIR_HORIZONTAL THEN move.col_start ELSE move.row_start
  IN UpdateMainLane(b, kwg, move, start - 1, start + move.tiles_length)

board_update_cross_sets_for_move(b, kwg, move) ==
  LET start == IF move.dir = DIR_HORIZONTAL THEN move.col_start ELSE move.row_start
  IN UpdateCrossEnds(UpdateMainLane(b, kwg, move, start - 1, start + move.tiles_length),
                     kwg, move, 0)

RECURSIVE board_apply_move_from(_, _, _)
board_apply_move_from(b, move, i) ==
  IF i >= move.tiles_length THEN b
  ELSE LET r == IF move.dir = DIR_HORIZONTAL THEN move.row_start ELSE move.row_start + i
           c == IF move.dir = DIR_HORIZONTAL THEN move.col_start + i ELSE move.col_start
       IN board_apply_move_from(
            IF move.tiles[i + 1] # PLAYED_THROUGH_MARKER
            THEN board_place_tile(b, r, c, move.tiles[i + 1]) ELSE b,
            move, i + 1)

board_apply_move(b, move) == board_apply_move_from(b, move, 0)

(***************************************************************************)
(* Racks and moves                                                         *)
(***************************************************************************)
rack_init == [counts |-> [ml \in 0..(ALPHABET_SIZE - 1) |-> 0], total |-> 0]

rack_add_tile(rack, tile) ==
  [counts |-> [rack.counts EXCEPT ![tile] = @ + 1], total |-> rack.total + 1]

RECURSIVE RackOf(_)
RackOf(tiles) ==
  IF tiles = <<>> THEN rack_init
  ELSE rack_add_tile(RackOf(Tail(tiles)), Head(tiles))

CountFresh(tiles) == Cardinality({i \in 1..Len(tiles) : tiles[i] # PLAYED_THROUGH_MARKER})

MakeMove(dir, row, col, tiles) ==
  [score |-> 0, equity |-> 0, move_type |-> GAME_EVENT_TILE_PLACEMENT_MOVE,
   row_start |-> row, col_start |-> col, tiles_played |-> CountFresh(tiles),
   tiles_length |-> Len(tiles), dir |-> dir, tiles |-> tiles]

(***************************************************************************)
(* The rules of the game, stated on the word list itself: which tile       *)
(* placements are legal plays of a rack on a board.                        *)
(***************************************************************************)
Words ==
  { <<1, 4>>, <<1, 4, 4>>, <<4, 1, 4>>, <<4, 5>>, <<5, 4>>, <<5, 24>>,
    <<1, 4, 4, 1, 24, 5, 19>> }

SqRow(dir, lane, k) == IF dir = DIR_HORIZONTAL THEN lane ELSE k

SqCol(dir, lane, k) == IF dir = DIR_HORIZONTAL THEN k ELSE lane

LetterAt(b, dir, lane, k) == b.h_letters[HIdx(SqRow(dir, lane, k), SqCol(dir, lane, k))]

Occupied(b, row, col) ==
  /\ row >= 0 /\ row < BOARD_DIM /\ col >= 0 /\ col < BOARD_DIM
  /\ b.h_letters[HIdx(row, col)] # ALPHABET_EMPTY_SQUARE_MARKER

HasNeighbour(b, row, col) ==
  \/ Occupied(b, row - 1, col) \/ Occupied(b, row + 1, col)
  \/ Occupied(b, row, col - 1) \/ Occupied(b, row, col + 1)

(* The word w can be laid on lane from start: it fits, it is not extended *)
(* by a tile at either end, it agrees with the tiles already there, it    *)
(* uses a fresh square, and it is connected (or covers the centre).       *)
WordFits(b, dir, lane, start, w) ==
  LET n == Len(w)
  IN /\ start + n <= BOARD_DIM
     /\ ~Occupied(b, SqRow(dir, lane, start - 1), SqCol(dir, lane, start - 1))
     /\ ~Occupied(b, SqRow(dir, lane, start + n), SqCol(dir, lane, start + n))
     /\ \A i \in 1..n :
          LET x == LetterAt(b, dir, lane, start + i - 1)
          IN x = ALPHABET_EMPTY_SQUARE_MARKER \/ UNBLANKED(x) = w[i]
     /\ \E i \in 1..n : LetterAt(b, dir, lane, start + i - 1) = ALPHABET_EMPTY_SQUARE_MARKER
     /\ IF b.tiles_played = 0
        THEN \E i \in 1..n : /\ SqRow(dir, lane, start + i - 1) = 7
                             /\ SqCol(dir, lane, start + i - 1) = 7
        ELSE \E i \in 1..n :
               \/ LetterAt(b, dir, lane, start + i - 1) # ALPHABET_EMPTY_SQUARE_MARKER
               \/ HasNeighbour(b, SqRow(dir, lane, start + i - 1),
                                  SqCol(dir, lane, start + i - 1))

UnblankAll(s) == [i \in 1..Len(s) |-> UNBLANKED(s[i])]

(* The word a fresh letter forms across the lane is in the word list *)
CrossWordOK(b, dir, lane, k, letter) ==
  LET row == SqRow(dir, lane, k)
      col == SqCol(dir, lane, k)
      dr == IF dir = DIR_HORIZONTAL THEN 1 ELSE 0
      dc == IF dir = DIR_HORIZONTAL THEN 0 ELSE 1
      prefix == Reverse(ScanRun(b, row, col, -dr, -dc))
      suffix == ScanRun(b, row, col, dr, dc)
  IN \/ (prefix = <<>> /\ suffix = <<>>)
     \/ UnblankAll(prefix \o <<letter>> \o suffix) \in Words

(* The tile sequences by which rack can lay w: each fresh letter is a     *)
(* natural tile or a designated blank.                                    *)
TileChoices(b, dir, lane, start, w, rack) ==
  LET n == Len(w)
      fresh == {i \in 1..n : LetterAt(b, dir, lane, start + i - 1) = ALPHABET_EMPTY_SQUARE_MARKER}
      feasible(blanks) ==
        /\ Cardinality(blanks) <= rack.counts[BLANK_MACHINE_LETTER]
        /\ \A i \in fresh \ blanks :
             Cardinality({j \in fresh \ blanks : w[j] = w[i]}) <= rack.counts[w[i]]
  IN { [i \in 1..n |-> IF i \notin fresh THEN PLAYED_THROUGH_MARKER
                       ELSE IF i \in blanks THEN BLANKED(w[i]) ELSE w[i]] :
       blanks \in {bs \in SUBSET fresh : feasible(bs)} }

(* Lanes worth looking at: those holding or touching a tile, or the centre *)
LiveLane(b, dir, lane) ==
  IF b.tiles_played = 0 THEN lane = 7
  ELSE \E k \in Lanes : \E d \in {-1, 0, 1} :
         Occupied(b, SqRow(dir, lane + d, k), SqCol(dir, lane + d, k))

LegalPlaysOn(b, rack, dir, lane) ==
  UNION { UNION {
    IF /\ WordFits(b, dir, lane, start, w)
       /\ \A i \in 1..Len(w) :
            LetterAt(b, dir, lane, start + i - 1) = ALPHABET_EMPTY_SQUARE_MARKER
              => CrossWordOK(b, dir, lane, start + i - 1, w[i])
    THEN { MakeMove(dir, SqRow(dir, lane, start), SqCol(dir, lane, start), t) :
             t \in TileChoices(b, dir, lane, start, w, rack) }
    ELSE {} :
    start \in Lanes } : w \in Words }

LegalPlays(b, rack) ==
  UNION { LegalPlaysOn(b, rack, dl[1], dl[2]) :
          dl \in {x \in {DIR_HORIZONTAL, DIR_VERTICAL} \X Lanes : LiveLane(b, x[1], x[2])} }

(***************************************************************************)
(* The leave evaluator (klv.h, klv.c): a DAWG of racks with word counts    *)
(* and a table of leave values in eighths.  The data below holds every     *)
(* rack of one or two tiles over ?, A, D, E, S, X.                         *)
(***************************************************************************)
KLVNodes ==
  << 4194306, 4194304, 8388616, 25165838, 75497491, 92274711, 327155738, 415236124,
     8388608, 25165824, 75497472, 92274688, 327155712, 415236096, 25165824, 75497472,
     92274688, 327155712, 415236096, 75497472, 92274688, 327155712, 415236096, 92274688,
     327155712, 415236096, 327155712, 415236096, 415236096 >>

KLVLeaves ==
  << 1, -28, 6, 34, -33, 24, -13, -21, -36, -29,
     15, 13, -32, 10, -10, -29, 30, 14, -34, -33,
     32, -25, -31, -12, 40, 28, 40 >>

KLV_UNFOUND_INDEX == -1

(* One pass over nodes hi down to lo, each count from the counts so far *)
RECURSIVE WordCountPass(_, _, _, _)
WordCountPass(nodes, wc, lo, hi) ==
  IF lo = hi
  THEN LET node == nodes[lo + 1]
           child_index == KWG_ARC_INDEX(node)
           count == (IF KWG_ACCEPTS(node) THEN 1 ELSE 0)
                    + (IF child_index # 0 /\ child_index < Len(nodes) THEN wc[child_index] ELSE 0)
                    + (IF ~KWG_IS_END(node) /\ lo + 1 < Len(nodes) THEN wc[lo + 1] ELSE 0)
       IN [wc EXCEPT ![lo] = count]
  ELSE LET mid == (lo + hi) \div 2
           first == WordCountPass(nodes, wc, mid + 1, hi)
       IN IF Ready(first) THEN WordCountPass(nodes, first, lo, mid) ELSE first

WordCountOnce(nodes, wc, passes) ==
  [word_counts |-> WordCountPass(nodes, wc, 0, Len(nodes) - 1), passes |-> passes + 1]

RECURSIVE WordCountLoop(_, _, _)
WordCountLoop(nodes, wc, passes) ==
  LET next == WordCountPass(nodes, wc, 0, Len(nodes) - 1)
  IN IF next = wc THEN [word_counts |-> wc, passes |-> passes + 1]
     ELSE WordCountLoop(nodes, next, passes + 1)

compute_word_counts(nodes) ==
  WordCountLoop(nodes, Table([i \in 0..(Len(nodes) - 1) |-> 0]), 0)

klv_init(nodes, leaves) ==
  [null |-> FALSE, kwg_size |-> Len(nodes), num_leaves |-> Len(leaves), kwg |-> nodes,
   leaves |-> leaves, word_counts |-> compute_word_counts(nodes).word_counts]

klv_get_dawg_root(klv) == KWG_ARC_INDEX(klv.kwg[1])

RECURSIVE increment_to_letter(_, _, _, _)
increment_to_letter(klv, node_index, word_index, ml) ==
  IF node_index = 0 THEN [node_index |-> 0, next_word_index |-> KLV_UNFOUND_INDEX]
  ELSE LET node == klv.kwg[node_index + 1]
       IN IF KWG_TILE(node) = ml
          THEN [node_index |-> node_index, next_word_index |-> word_index]
          ELSE IF KWG_IS_END(node)
          THEN [node_index |-> 0, next_word_index |-> KLV_UNFOUND_INDEX]
          ELSE increment_to_letter(klv, node_index + 1,
                 word_index + klv.word_counts[node_index] - klv.word_counts[node_index + 1], ml)

follow_arc(klv, node_index, word_index) ==
  IF node_index = 0 THEN [node_index |-> 0, next_word_index |-> KLV_UNFOUND_INDEX]
  ELSE [node_index |-> KWG_ARC_INDEX(klv.kwg[node_index + 1]),
        next_word_index |-> word_index + 1]

(* The letter the traversal turns to once the current one is used up *)
NextLetter(rack, ml) ==
  LET later == {m \in (ml + 1)..(ALPHABET_SIZE - 1) : rack.counts[m] # 0}
      next == CHOOSE m \in later : \A o \in later : m <= o
  IN IF later = {} THEN [ml |-> ALPHABET_SIZE, ml_count |-> 0]
     ELSE [ml |-> next, ml_count |-> rack.counts[next]]

RECURSIVE WordIndexLoop(_, _, _, _, _, _, _)
WordIndexLoop(klv, rack, node_index, idx, ml, ml_count, remaining) ==
  IF node_index = 0 THEN KLV_UNFOUND_INDEX
  ELSE LET inc == increment_to_letter(klv, node_index, idx, ml)
           adv == IF ml_count - 1 = 0 THEN NextLetter(rack, ml)
                  ELSE [ml |-> ml, ml_count |-> ml_count - 1]
           arc == follow_arc(klv, inc.node_index, inc.next_word_index)
       IN IF inc.node_index = 0 THEN KLV_UNFOUND_INDEX
          ELSE IF remaining - 1 = 0 THEN inc.next_word_index
          ELSE WordIndexLoop(klv, rack, arc.node_index, arc.next_word_index,
                             adv.ml, adv.ml_count, remaining - 1)

klv_get_word_index(klv, rack) ==
  IF rack.total = 0 THEN KLV_UNFOUND_INDEX
  ELSE LET first == CHOOSE ml \in 0..(ALPHABET_SIZE - 1) :
                      /\ rack.counts[ml] > 0
                      /\ \A k \in 0..(ml - 1) : rack.counts[k] = 0
       IN WordIndexLoop(klv, rack, klv_get_dawg_root(klv), 0, first,
                        rack.counts[first], rack.total)

(* The read that takes any index into the table *)
IndexedLeaveUnchecked(klv, index) == klv.leaves[(index % klv.num_leaves) + 1]

klv_get_indexed_leave(klv, index) ==
  IF index = KLV_UNFOUND_INDEX THEN 0 ELSE klv.leaves[index + 1]

klv_get_leave_value(klv, rack) ==
  IF rack.total = 0 THEN 0
  ELSE klv_get_indexed_leave(klv, klv_get_word_index(klv, rack))

klv_data == klv_init(KLVNodes, KLVLeaves)

NULL_KLV == [null |-> TRUE]

NULL_RACK == [null |-> TRUE]

LEAVE_MAP_SIZE == 128

(* Bit operations on a byte, for a mask with a single bit set *)
HasBit(x, mask) == (x \div mask) % 2 = 1

OrBit(x, mask) == IF HasBit(x, mask) THEN x ELSE x + mask

AndNotBit(x, mask) == IF HasBit(x, mask) THEN x - mask ELSE x

(* Number of rack tiles among the letters lo..hi *)
RECURSIVE CountRange(_, _, _)
CountRange(rack, lo, hi) ==
  IF lo > hi THEN 0
  ELSE IF lo = hi THEN rack.counts[lo]
  ELSE CountRange(rack, lo, (lo + hi) \div 2) + CountRange(rack, (lo + hi) \div 2 + 1, hi)

LetterBase(rack, ml) == CountRange(rack, 0, ml - 1)

(* populate_leave_values visits every sub-multiset of the rack once.  With k *)
(* tiles of a letter taken, the low k bits of the letter's block are set in  *)
(* current_index; the entry written is the leave value of the tiles left.    *)
TakenAt(rack, base, index, ml) ==
  LET block == (index \div (2 ^ base[ml])) % (2 ^ rack.counts[ml])
  IN IF \E n \in 0..rack.counts[ml] : block = 2 ^ n - 1
     THEN CHOOSE n \in 0..rack.counts[ml] : block = 2 ^ n - 1
     ELSE -1

populate_leave_values(lm, k, rack) ==
  LET present == {ml \in 0..(ALPHABET_SIZE - 1) : rack.counts[ml] > 0}
      visited == {i \in 0..(2 ^ rack.total - 1) :
                    \A ml \in present : TakenAt(rack, lm.letter_base_index, i, ml) # -1}
      left(i) == [counts |-> [ml \in 0..(ALPHABET_SIZE - 1) |->
                               IF ml \in present
                               THEN rack.counts[ml] - TakenAt(rack, lm.letter_base_index, i, ml)
                               ELSE 0],
                  total |-> rack.total
                            - Cardinality({j \in 0..(RACK_SIZE - 1) : HasBit(i, 2 ^ j)})]
      values == Table([i \in 0..(LEAVE_MAP_SIZE - 1) |->
                  IF i \in visited THEN klv_get_leave_value(k, left(i))
                  ELSE lm.leave_values[i]])
      best(size) ==
        LET cands == {lm.best_leaves[size]} \cup
                     {values[i] : i \in {j \in visited : left(j).total = size}}
        IN CHOOSE v \in cands : \A w \in cands : w <= v
  IN [lm EXCEPT !.leave_values = values,
                !.best_leaves = Table([size \in 0..RACK_SIZE |-> best(size)])]

(* The generator state starts zeroed (memset), so entries of leave_values *)
(* that populate_leave_values never writes read as 0.                     *)
leave_map_init(k, rack) ==
  LET base == Table([ml \in 0..(ALPHABET_SIZE - 1) |->
                 IF rack.counts[ml] > 0 THEN LetterBase(rack, ml) ELSE 0])
      owner(j) == CHOOSE ml \in 0..(ALPHABET_SIZE - 1) :
                    /\ rack.counts[ml] > 0
                    /\ base[ml] <= j /\ j < base[ml] + rack.counts[ml]
      rbm == Table([j \in 0..(RACK_SIZE - 1) |->
                IF j < rack.total
                THEN 2 ^ (base[owner(j)] + rack.counts[owner(j)] - (j - base[owner(j)]) - 1)
                ELSE 0])
  IN populate_leave_values(
       [leave_values |-> Table([i \in 0..(LEAVE_MAP_SIZE - 1) |-> 0]),
        letter_base_index |-> base,
        reversed_bit_map |-> rbm,
        current_index |-> 0,
        rack_size |-> rack.total,
        best_leaves |-> Table([i \in 0..RACK_SIZE |-> EQUITY_INITIAL_VALUE])],
       k, rack)

leave_map_take_letter(lm, letter, count_after) ==
  [lm EXCEPT !.current_index = AndNotBit(@, 2 ^ (lm.letter_base_index[letter] + count_after))]

leave_map_add_letter(lm, letter, count_before) ==
  [lm EXCEPT !.current_index = OrBit(@, 2 ^ (lm.letter_base_index[letter] + count_before))]

leave_map_get_current(lm) == lm.leave_values[lm.current_index]

(***************************************************************************)
(* Move generation (movegen.c): static evaluation                          *)
(***************************************************************************)
(* Board.opening_move_penalties is written nowhere; the game state is a    *)
(* static object, so the table reads as zeros.                             *)
opening_move_penalties == [i \in 0..(2 * BOARD_DIM - 1) |-> 0]

RECURSIVE rack_score_range(_, _, _)
rack_score_range(rack, lo, hi) ==
  IF lo = hi THEN rack.counts[lo] * tile_scores[lo + 1]
  ELSE rack_score_range(rack, lo, (lo + hi) \div 2)
       + rack_score_range(rack, (lo + hi) \div 2 + 1, hi)

rack_get_score(rack) == rack_score_range(rack, 0, ALPHABET_SIZE - 1)

RECURSIVE placement_penalty_range(_, _, _, _)
placement_penalty_range(tiles, base, lo, hi) ==
  IF lo = hi
  THEN (IF tiles[lo] # PLAYED_THROUGH_MARKER /\ UNBLANKED(tiles[lo]) \in IS_VOWEL
        THEN opening_move_penalties[base + lo - 1] ELSE 0)
  ELSE placement_penalty_range(tiles, base, lo, (lo + hi) \div 2)
       + placement_penalty_range(tiles, base, (lo + hi) \div 2 + 1, hi)

placement_adjustment(row_start, col_start, dir, tiles) ==
  placement_penalty_range(tiles,
    dir * BOARD_DIM + (IF dir = DIR_HORIZONTAL THEN col_start ELSE row_start),
    1, Len(tiles))

endgame_nonoutplay_adjustment(player_rack_score) ==
  (-player_rack_score * 2) - NON_OUTPLAY_CONSTANT_PENALTY

endgame_outplay_adjustment(opponent_rack_score) == 2 * opponent_rack_score

(* The adjustment with the tiles of either rack counted once *)
EndgameAdjustmentCountedOnce(player_leave, opp_rack) ==
  IF player_leave.total > 0
  THEN -rack_get_score(player_leave) - NON_OUTPLAY_CONSTANT_PENALTY
  ELSE IF ~opp_rack.null THEN rack_get_score(opp_rack)
  ELSE 0

standard_endgame_adjustment(player_leave, opp_rack) ==
  IF player_leave.total > 0
  THEN endgame_nonoutplay_adjustment(rack_get_score(player_leave))
  ELSE IF ~opp_rack.null
  THEN endgame_outplay_adjustment(rack_get_score(opp_rack))
  ELSE 0

is_empty(gen, col) == gen.row_letters[col] = ALPHABET_EMPTY_SQUARE_MARKER

is_anchor(gen, col) == gen.row_is_anchor[col]

in_cross_set(cs, ml) == UNBLANKED(ml) \in cs

(***************************************************************************)
(* Move generation: the comparator and the best-move record                *)
(***************************************************************************)
(* The lexicographic comparison of two strips of the same length *)
TilesLess(new_tiles, best_tiles) ==
  \E i \in 1..Len(new_tiles) :
    /\ new_tiles[i] < best_tiles[i]
    /\ \A j \in 1..(i - 1) : new_tiles[j] = best_tiles[j]

(* The comparison that stops at the equity: a tie keeps the earlier play *)
BetterByEquityOnly(new_equity, new_score, new_row, new_col, new_dir, new_tiles_played, new_tiles_length, new_tiles, best_equity, best) ==
  best_equity = EQUITY_INITIAL_VALUE \/ new_equity > best_equity

is_better_move(new_equity, new_score, new_row, new_col, new_dir, new_tiles_played, new_tiles_length, new_tiles, best_equity, best) ==
  IF best_equity = EQUITY_INITIAL_VALUE THEN TRUE
  ELSE IF new_equity # best_equity THEN new_equity > best_equity
  ELSE IF new_score # best.score THEN new_score > best.score
  ELSE IF new_row # best.row_start THEN new_row < best.row_start
  ELSE IF new_col # best.col_start THEN new_col < best.col_start
  ELSE IF new_dir # best.dir THEN best.dir # 0
  ELSE IF new_tiles_played # best.tiles_played THEN new_tiles_played < best.tiles_played
  ELSE IF new_tiles_length # best.tiles_length THEN new_tiles_length < best.tiles_length
  ELSE TilesLess(new_tiles, best.tiles)

(* The bonus given whenever the play empties the working rack *)
BingoBonusForEmptiedRack(gen) == IF gen.rack.total = 0 THEN BINGO_BONUS ELSE 0

(* The bingo bonus record_move adds to the score *)
BingoBonus(gen) == IF gen.tiles_played = RACK_SIZE THEN BINGO_BONUS ELSE 0

(* The copy that takes the letter of the board where the strip plays      *)
(* through a tile                                                         *)
StripWithBoardLetters(gen, leftstrip, rightstrip) ==
  [i \in 1..(rightstrip - leftstrip + 1) |->
     IF is_empty(gen, leftstrip + i - 1) THEN gen.strip[leftstrip + i - 1]
     ELSE gen.row_letters[leftstrip + i - 1]]

(* The tiles record_move copies from the strip *)
StripTiles(gen, leftstrip, rightstrip) ==
  [i \in 1..(rightstrip - leftstrip + 1) |-> gen.strip[leftstrip + i - 1]]

(* The play that record_move is handed, with the score and equity it      *)
(* computes for it.                                                       *)
RecordedPlay(gen, leftstrip, rightstrip) ==
  LET main_word_contrib == gen.main_word_score * gen.word_multiplier
      score == main_word_contrib + gen.cross_score + BingoBonus(gen)
      new_row == IF gen.dir = DIR_HORIZONTAL THEN gen.current_row ELSE leftstrip
      new_col == IF gen.dir = DIR_HORIZONTAL THEN leftstrip ELSE gen.current_row
      tiles == StripTiles(gen, leftstrip, rightstrip)
      placement == IF gen.board.tiles_played = 0
                   THEN placement_adjustment(new_row, new_col, gen.dir, tiles) ELSE 0
      leave_adjustment == IF gen.tiles_in_bag > 0 /\ ~gen.klv.null
                          THEN leave_map_get_current(gen.leave_map) ELSE 0
      endgame == IF gen.tiles_in_bag > 0 THEN 0
                 ELSE standard_endgame_adjustment(gen.rack, gen.opp_rack)
  IN [score |-> score, equity |-> score + leave_adjustment + placement + endgame,
      move_type |-> GAME_EVENT_TILE_PLACEMENT_MOVE,
      row_start |-> new_row, col_start |-> new_col, tiles_played |-> gen.tiles_played,
      tiles_length |-> rightstrip - leftstrip + 1, dir |-> gen.dir, tiles |-> tiles]

record_move(gen, leftstrip, rightstrip) ==
  LET new == RecordedPlay(gen, leftstrip, rightstrip)
      seen == [gen EXCEPT !.move_count = @ + 1,
                          !.recorded = Append(@, [move |-> new, rack |-> gen.rack,
                                                  anchor_col |-> gen.anchor_col,
                                                  last_anchor_col |-> gen.last_anchor_col,
                                                  current_index |-> gen.leave_map.current_index])]
  IN IF gen.best_equity # EQUITY_INITIAL_VALUE /\ new.equity < gen.best_equity THEN seen
     ELSE IF ~is_better_move(new.equity, new.score, new.row_start, new.col_start, new.dir,
                             new.tiles_played, new.tiles_length, new.tiles,
                             gen.best_equity, gen.best_move)
     THEN seen
     ELSE [seen EXCEPT !.best_equity = new.equity, !.best_move = new]

(***************************************************************************)
(* Move generation: the recursive GADDAG traversal                         *)
(***************************************************************************)
(* recursive_gen runs at most 2^MaxRunDepth steps *)
MaxRunDepth == 20

(* The last node of the sibling list that starts at node i *)
SiblingEnd(kwg, i) ==
  CHOOSE j \in i..(Len(kwg) - 1) :
    /\ KWG_IS_END(kwg_get_node(kwg, j))
    /\ \A m \in i..(j - 1) : ~KWG_IS_END(kwg_get_node(kwg, m))

(* The sibling search for the letter already on the board; -1 when absent *)
FindArc(kwg, i, raw) ==
  LET found == {j \in i..SiblingEnd(kwg, i) : KWG_TILE(kwg_get_node(kwg, j)) = raw}
  IN IF found = {} THEN -1 ELSE CHOOSE j \in found : \A m \in found : j <= m

(* recursive_gen and go_on call each other as deep as the word is long.   *)
(* gen.stack is their call stack: each entry is a pending call or the      *)
(* rest of a function body that called go_on or recursive_gen, the top     *)
(* entry first.                                                            *)
CallGen(col, node_index, leftstrip, rightstrip) ==
  [pc |-> "recursive_gen", col |-> col, node_index |-> node_index,
   leftstrip |-> leftstrip, rightstrip |-> rightstrip]

CallGoOn(col, letter, next_node_index, accepts, leftstrip, rightstrip) ==
  [pc |-> "go_on", col |-> col, letter |-> letter, next_node_index |-> next_node_index,
   accepts |-> accepts, leftstrip |-> leftstrip, rightstrip |-> rightstrip]

(* recursive_gen, the square already holds a tile: the matching arc *)
GenThrough(gen, f, rest) ==
  LET current_letter == gen.row_letters[f.col]
      i == FindArc(gen.kwg, f.node_index, UNBLANKED(current_letter))
      node == kwg_get_node(gen.kwg, i)
  IN IF i = -1 THEN [gen EXCEPT !.stack = rest]
     ELSE [gen EXCEPT !.stack = <<CallGoOn(f.col, current_letter, KWG_ARC_INDEX(node),
                                           KWG_ACCEPTS(node), f.leftstrip, f.rightstrip)>>
                                 \o rest]

(* recursive_gen, entry: the cross-set of the square and the start of the *)
(* sibling loop                                                           *)
GenEnter(gen, f, rest) ==
  LET cs0 == gen.row_cross_sets[f.col]
      cs1 == IF f.col <= gen.anchor_col THEN cs0 \cap gen.left_ext_set ELSE cs0
      cross_set == IF gen.tiles_played = 0 /\ f.col = gen.anchor_col + 1
                   THEN cs1 \cap gen.right_ext_set ELSE cs1
  IN IF gen.row_letters[f.col] # ALPHABET_EMPTY_SQUARE_MARKER THEN GenThrough(gen, f, rest)
     ELSE IF gen.rack.total > 0
     THEN [gen EXCEPT !.stack =
             <<[pc |-> "tile", col |-> f.col, i |-> f.node_index, cross_set |-> cross_set,
                has_blank |-> gen.rack.counts[BLANK_MACHINE_LETTER] > 0,
                leftstrip |-> f.leftstrip, rightstrip |-> f.rightstrip]>> \o rest]
     ELSE [gen EXCEPT !.stack = rest]

(* A rack tile (the natural tile, or the blank standing for it) is taken  *)
(* and go_on is called; after is what remains to do when go_on is back.   *)
TakeTile(gen, f, rack_tile, letter, node, after) ==
  LET count_after == gen.rack.counts[rack_tile] - 1
  IN [gen EXCEPT
        !.rack = [counts |-> [gen.rack.counts EXCEPT ![rack_tile] = count_after],
                  total |-> gen.rack.total - 1],
        !.tiles_played = @ + 1,
        !.leave_map = IF gen.klv.null THEN @
                      ELSE leave_map_take_letter(@, rack_tile, count_after),
        !.stack = <<CallGoOn(f.col, letter, KWG_ARC_INDEX(node), KWG_ACCEPTS(node),
                             f.leftstrip, f.rightstrip),
                    [pc |-> "put_back", rack_tile |-> rack_tile]>> \o after]

(* The tile taken for go_on stays off the rack *)
PutBackCountOnly(gen, f, rest) ==
  [gen EXCEPT
     !.leave_map = IF gen.klv.null THEN @
                   ELSE leave_map_add_letter(@, f.rack_tile, gen.rack.counts[f.rack_tile]),
     !.tiles_played = @ - 1,
     !.rack = [counts |-> gen.rack.counts, total |-> gen.rack.total + 1],
     !.stack = rest]

(* The tile taken for go_on goes back on the rack *)
PutBack(gen, f, rest) ==
  [gen EXCEPT
     !.leave_map = IF gen.klv.null THEN @
                   ELSE leave_map_add_letter(@, f.rack_tile, gen.rack.counts[f.rack_tile]),
     !.tiles_played = @ - 1,
     !.rack = [counts |-> [gen.rack.counts EXCEPT ![f.rack_tile] = @ + 1],
               total |-> gen.rack.total + 1],
     !.stack = rest]

(* recursive_gen, one round of the sibling loop: node f.i with the tile   *)
(* itself, then ("blank") with the blank, then on to the next sibling.    *)
TryTiles(gen, f, rest) ==
  LET node == kwg_get_node(gen.kwg, f.i)
      tile == KWG_TILE(node)
      usable == tile # 0 /\ in_cross_set(f.cross_set, tile)
      has_tile == gen.rack.counts[tile] > 0
      next == IF KWG_IS_END(node) THEN rest
              ELSE <<[f EXCEPT !.pc = "tile", !.i = f.i + 1]>> \o rest
      blank == IF usable /\ f.has_blank
               THEN TakeTile(gen, f, BLANK_MACHINE_LETTER, BLANKED(tile), node, next)
               ELSE [gen EXCEPT !.stack = next]
  IN IF f.pc = "blank" THEN blank
     ELSE IF usable /\ has_tile
     THEN TakeTile(gen, f, tile, tile, node, <<[f EXCEPT !.pc = "blank"]>> \o rest)
     ELSE blank

go_on_any_end(gen, f, rest) ==
  LET col == f.col
      bonus == gen.row_bonuses[col]
      fresh_tile == is_empty(gen, col)
      letter_mult == IF fresh_tile THEN get_letter_mult(bonus) ELSE 1
      word_mult == IF fresh_tile THEN get_word_mult(bonus) ELSE 1
      restore == [pc |-> "restore", word_multiplier |-> gen.word_multiplier,
                  main_word_score |-> gen.main_word_score, cross_score |-> gen.cross_score]
      g == [gen EXCEPT
              !.strip[col] = IF fresh_tile THEN f.letter ELSE PLAYED_THROUGH_MARKER,
              !.word_multiplier = @ * word_mult,
              !.main_word_score = @ + get_tile_score(f.letter) * letter_mult,
              !.cross_score =
                 IF fresh_tile /\ gen.row_cross_scores[col] >= 0
                 THEN @ + (get_tile_score(f.letter) * letter_mult + gen.row_cross_scores[col])
                          * word_mult
                 ELSE @]
      no_letter_left == (col = 0) \/ is_empty(gen, col - 1)
      no_letter_right_of_anchor ==
        (gen.anchor_col = BOARD_DIM - 1) \/ is_empty(gen, gen.anchor_col + 1)
      no_letter_right == (col = BOARD_DIM - 1) \/ is_empty(gen, col + 1)
      sep_node == kwg_follow_arc(gen.kwg, f.next_node_index, ML_SEPARATOR)
      left == IF f.next_node_index # 0 /\ col > 0 /\ col - 1 # gen.last_anchor_col
              THEN <<CallGen(col - 1, f.next_node_index, col, f.rightstrip)>> ELSE <<>>
      cross == IF /\ f.next_node_index # 0 /\ no_letter_left
                  /\ sep_node # 0 /\ gen.anchor_col < BOARD_DIM - 1
               THEN <<CallGen(gen.anchor_col + 1, sep_node, col, f.rightstrip)>> ELSE <<>>
      right == IF f.next_node_index # 0 /\ col < BOARD_DIM - 1
               THEN <<CallGen(col + 1, f.next_node_index, f.leftstrip, col)>> ELSE <<>>
  IN IF col <= gen.anchor_col
     THEN [(IF f.accepts /\ g.tiles_played > 0
            THEN record_move(g, col, f.rightstrip) ELSE g)
             EXCEPT !.stack = left \o cross \o <<restore>> \o rest]
     ELSE [(IF f.accepts /\ g.tiles_played > 0
            THEN record_move(g, f.leftstrip, col) ELSE g)
             EXCEPT !.stack = right \o <<restore>> \o rest]

(* go_on up to its calls of recursive_gen, which it leaves on the stack   *)
(* above the restore of the three accumulators.                           *)
go_on(gen, f, rest) ==
  LET col == f.col
      bonus == gen.row_bonuses[col]
      fresh_tile == is_empty(gen, col)
      letter_mult == IF fresh_tile THEN get_letter_mult(bonus) ELSE 1
      word_mult == IF fresh_tile THEN get_word_mult(bonus) ELSE 1
      restore == [pc |-> "restore", word_multiplier |-> gen.word_multiplier,
                  main_word_score |-> gen.main_word_score, cross_score |-> gen.cross_score]
      g == [gen EXCEPT
              !.strip[col] = IF fresh_tile THEN f.letter ELSE PLAYED_THROUGH_MARKER,
              !.word_multiplier = @ * word_mult,
              !.main_word_score = @ + get_tile_score(f.letter) * letter_mult,
              !.cross_score =
                 IF fresh_tile /\ gen.row_cross_scores[col] >= 0
                 THEN @ + (get_tile_score(f.letter) * letter_mult + gen.row_cross_scores[col])
                          * word_mult
                 ELSE @]
      no_letter_left == (col = 0) \/ is_empty(gen, col - 1)
      no_letter_right_of_anchor ==
        (gen.anchor_col = BOARD_DIM - 1) \/ is_empty(gen, gen.anchor_col + 1)
      no_letter_right == (col = BOARD_DIM - 1) \/ is_empty(gen, col + 1)
      sep_node == kwg_follow_arc(gen.kwg, f.next_node_index, ML_SEPARATOR)
      left == IF f.next_node_index # 0 /\ col > 0 /\ col - 1 # gen.last_anchor_col
              THEN <<CallGen(col - 1, f.next_node_index, col, f.rightstrip)>> ELSE <<>>
      cross == IF /\ f.next_node_index # 0 /\ no_letter_left
                  /\ sep_node # 0 /\ gen.anchor_col < BOARD_DIM - 1
               THEN <<CallGen(gen.anchor_col + 1, sep_node, col, f.rightstrip)>> ELSE <<>>
      right == IF f.next_node_index # 0 /\ col < BOARD_DIM - 1
               THEN <<CallGen(col + 1, f.next_node_index, f.leftstrip, col)>> ELSE <<>>
  IN IF col <= gen.anchor_col
     THEN [(IF f.accepts /\ no_letter_left /\ no_letter_right_of_anchor /\ g.tiles_played > 0
            THEN record_move(g, col, f.rightstrip) ELSE g)
             EXCEPT !.stack = left \o cross \o <<restore>> \o rest]
     ELSE [(IF f.accepts /\ no_letter_right /\ g.tiles_played > 0
            THEN record_move(g, f.leftstrip, col) ELSE g)
             EXCEPT !.stack = right \o <<restore>> \o rest]

(* The end of go_on *)
Restore(gen, f, rest) ==
  [gen EXCEPT !.word_multiplier = f.word_multiplier,
              !.main_word_score = f.main_word_score,
              !.cross_score = f.cross_score,
              !.stack = rest]

(* The top entry of the call stack runs up to its next call or return *)
GenStep(gen) ==
  LET f == Head(gen.stack)
      rest == Tail(gen.stack)
  IN CASE f.pc = "recursive_gen" -> GenEnter(gen, f, rest)
       [] f.pc \in {"tile", "blank"} -> TryTiles(gen, f, rest)
       [] f.pc = "put_back" -> PutBack(gen, f, rest)
       [] f.pc = "go_on" -> go_on(gen, f, rest)
       [] f.pc = "restore" -> Restore(gen, f, rest)

(* Up to 2^n steps, stopping when the call stack is empty *)
RECURSIVE GenRun(_, _)
GenRun(gen, n) ==
  IF gen.stack = <<>> THEN gen
  ELSE IF n = 0 THEN GenStep(gen)
  ELSE LET first == GenRun(gen, n - 1)
       IN IF first.stack = <<>> THEN first ELSE GenRun(first, n - 1)

recursive_gen(gen, col, node_index, leftstrip, rightstrip) ==
  GenRun([gen EXCEPT !.stack = <<CallGen(col, node_index, leftstrip, rightstrip)>>],
         MaxRunDepth)

(* The working state that recursive_gen and go_on change and put back *)
WorkingState(gen) ==
  [rack |-> gen.rack, tiles_played |-> gen.tiles_played,
   main_word_score |-> gen.main_word_score, cross_score |-> gen.cross_score,
   word_multiplier |-> gen.word_multiplier]

(* gen.generated keeps, for each anchor, the working state and the index   *)
(* of the leave map with which recursive_gen was called and the ones it    *)
(* left.                                                                   *)
gen_for_anchor(gen, anchor_col) ==
  LET entered == [gen EXCEPT !.anchor_col = anchor_col, !.tiles_played = 0,
                             !.main_word_score = 0, !.cross_score = 0,
                             !.word_multiplier = 1,
                             !.left_ext_set = TRIVIAL_CROSS_SET,
                             !.right_ext_set = TRIVIAL_CROSS_SET]
      left == recursive_gen(entered, anchor_col, kwg_get_gaddag_root(gen.kwg),
                            anchor_col, anchor_col)
  IN [left EXCEPT !.generated = Append(@, [anchor_col |-> anchor_col,
                                           entry |-> WorkingState(entered),
                                           exit |-> WorkingState(left),
                                           index_entry |-> entered.leave_map.current_index,
                                           index_exit |-> left.leave_map.current_index])]

(* The anchor loop of gen_for_row over the columns lo..hi, left to right *)
RECURSIVE GenForRowFrom(_, _, _)
GenForRowFrom(gen, lo, hi) ==
  IF lo < hi
  THEN LET first == GenForRowFrom(gen, lo, (lo + hi) \div 2)
       IN IF Ready(first) THEN GenForRowFrom(first, (lo + hi) \div 2 + 1, hi) ELSE first
  ELSE IF ~is_anchor(gen, lo) THEN gen
  ELSE [gen_for_anchor(gen, lo) EXCEPT !.last_anchor_col = lo]

gen_for_row(gen) ==
  GenForRowFrom([gen EXCEPT !.last_anchor_col = BOARD_DIM], 0, BOARD_DIM - 1)

cache_row(gen, row, dir) ==
  LET b == gen.board
      h == (dir = DIR_HORIZONTAL)
      base_idx == row * BOARD_DIM
      board_row(col) == IF h THEN row ELSE col
      board_col(col) == IF h THEN col ELSE row
  IN [gen EXCEPT
        !.current_row = row,
        !.dir = dir,
        !.row_letters = [col \in Lanes |->
            IF h THEN b.h_letters[base_idx + col] ELSE b.v_letters[base_idx + col]],
        !.row_cross_sets = [col \in Lanes |->
            IF h THEN b.h_cross_sets[base_idx + col] ELSE b.v_cross_sets[base_idx + col]],
        !.row_cross_scores = [col \in Lanes |->
            IF h THEN b.h_cross_scores[base_idx + col] ELSE b.v_cross_scores[base_idx + col]],
        !.row_leftx = [col \in Lanes |->
            IF h THEN b.h_leftx[base_idx + col] ELSE b.v_leftx[base_idx + col]],
        !.row_rightx = [col \in Lanes |->
            IF h THEN b.h_rightx[base_idx + col] ELSE b.v_rightx[base_idx + col]],
        !.row_bonuses = [col \in Lanes |-> BONUS_LAYOUT[HIdx(board_row(col), board_col(col))]],
        !.row_is_anchor = [col \in Lanes |->
            /\ (IF h THEN b.h_letters[base_idx + col] ELSE b.v_letters[base_idx + col])
                 = ALPHABET_EMPTY_SQUARE_MARKER
            /\ \/ HasNeighbour(b, board_row(col), board_col(col))
               \/ (board_row(col) = 7 /\ board_col(col) = 7 /\ b.tiles_played = 0)]]

(* The rack as the sequence of its tiles in machine-letter order *)
RECURSIVE RackTilesRange(_, _, _)
RackTilesRange(rack, lo, hi) ==
  IF lo = hi THEN [i \in 1..rack.counts[lo] |-> lo]
  ELSE RackTilesRange(rack, lo, (lo + hi) \div 2)
       \o RackTilesRange(rack, (lo + hi) \div 2 + 1, hi)

RackTiles(rack) == RackTilesRange(rack, 0, ALPHABET_SIZE - 1)

(***************************************************************************)
(* Move generation: the shadow pass (an upper bound for each anchor)       *)
(***************************************************************************)
(* A loop over the squares of a lane runs at most 2^MaxLoopDepth rounds *)
MaxLoopDepth == 4

MULT_SMALL(val, m) == IF m = 2 THEN val + val ELSE IF m = 3 THEN val + val + val ELSE val

Slots == 0..(RACK_SIZE - 1)

(* build_descending_tile_scores: the scores of the rack's tiles, the      *)
(* highest first, the remaining entries 0                                  *)
build_descending_tile_scores(gen) ==
  LET tiles == RackTiles(gen.rack)
      count == IF Len(tiles) < RACK_SIZE THEN Len(tiles) ELSE RACK_SIZE
      scores == [i \in 1..count |-> tile_scores[tiles[i] + 1]]
      values == {scores[i] : i \in 1..count}
      at(k) == CHOOSE v \in values :
                 /\ Cardinality({i \in 1..count : scores[i] > v}) <= k
                 /\ k < Cardinality({i \in 1..count : scores[i] >= v})
  IN [gen EXCEPT !.descending_tile_scores =
        Table([k \in Slots |-> IF k < count THEN at(k) ELSE 0])]

build_rack_cross_set(rack) == {ml \in 0..(ALPHABET_SIZE - 1) : rack.counts[ml] > 0}

is_single_bit(x) == Cardinality(x) = 1

get_lowest_bit_index(x) == CHOOSE ml \in x : \A o \in x : ml <= o

remove_score_from_descending(gen, score) ==
  LET count == gen.rack.total
      dts == gen.descending_tile_scores
      hits == {i \in 0..(count - 1) : dts[i] = score}
      i == CHOOSE h \in hits : \A o \in hits : o <= h
  IN IF hits = {} THEN gen
     ELSE [gen EXCEPT !.descending_tile_scores =
             Table([j \in Slots |-> IF j >= i /\ j < count THEN dts[j + 1]
                                    ELSE IF j = count THEN 0 ELSE dts[j]])]

(* Where the insertion loops stop: below it every entry is at least mult *)
InsertIndex(mults, n, mult) ==
  CHOOSE k \in 0..n : /\ \A j \in k..(n - 1) : mults[j] < mult
                      /\ (k = 0 \/ ~(mults[k - 1] < mult))

insert_unrestricted_cross_word_mult(gen, mult, col) ==
  LET n == gen.num_unrestricted_multipliers
      a == gen.descending_cross_word_multipliers
      insert_idx == InsertIndex([j \in Slots |-> a[j].multiplier], n, mult)
  IN [gen EXCEPT !.descending_cross_word_multipliers =
        Table([i \in Slots |-> IF i = insert_idx THEN [multiplier |-> mult, column |-> col]
                               ELSE IF i > insert_idx /\ i <= n THEN a[i - 1] ELSE a[i]])]

insert_unrestricted_eff_letter_mult(gen, mult) ==
  LET n == gen.num_unrestricted_multipliers
      a == gen.descending_effective_letter_multipliers
      insert_idx == InsertIndex(a, n, mult)
  IN [gen EXCEPT !.descending_effective_letter_multipliers =
        Table([i \in Slots |-> IF i = insert_idx THEN mult
                               ELSE IF i > insert_idx /\ i <= n THEN a[i - 1] ELSE a[i]])]

(* The loop of maybe_recalc_effective_multipliers from entry i on *)
RECURSIVE RecalcFrom(_, _, _)
RecalcFrom(gen, i, orig_count) ==
  IF i >= orig_count THEN gen
  ELSE LET xw_mult == gen.descending_cross_word_multipliers[i].multiplier
           col == gen.descending_cross_word_multipliers[i].column
           letter_mult == get_letter_mult(gen.row_bonuses[col])
           eff_mult == MULT_SMALL(gen.shadow_word_multiplier, letter_mult) + xw_mult
           inserted == insert_unrestricted_eff_letter_mult(gen, eff_mult)
       IN RecalcFrom([inserted EXCEPT !.num_unrestricted_multipliers = @ + 1],
                     i + 1, orig_count)

maybe_recalc_effective_multipliers(gen) ==
  IF gen.last_word_multiplier = gen.shadow_word_multiplier THEN gen
  ELSE RecalcFrom([gen EXCEPT !.last_word_multiplier = gen.shadow_word_multiplier,
                              !.num_unrestricted_multipliers = 0],
                  0, gen.num_unrestricted_multipliers)

(* insert_unrestricted_multipliers after its call of                     *)
(* maybe_recalc_effective_multipliers                                    *)
InsertMultipliers(g, col) ==
  LET bonus == g.row_bonuses[col]
      this_word_mult == get_word_mult(bonus)
      letter_mult == get_letter_mult(bonus)
      is_cross_word == IF g.row_cross_scores[col] >= 0 THEN 1 ELSE 0
      eff_xw_mult == letter_mult * this_word_mult * is_cross_word
      main_word_mult == MULT_SMALL(g.shadow_word_multiplier, letter_mult)
  IN [insert_unrestricted_eff_letter_mult(
        insert_unrestricted_cross_word_mult(g, eff_xw_mult, col),
        main_word_mult + eff_xw_mult)
      EXCEPT !.num_unrestricted_multipliers = @ + 1]

insert_unrestricted_multipliers(gen, col) ==
  InsertMultipliers(maybe_recalc_effective_multipliers(gen), col)

(* try_restrict_tile: the state after it, and whether it restricted *)
try_restrict_tile(gen, possible_tiles, letter_mult, word_mult, col) ==
  LET ml == get_lowest_bit_index(possible_tiles)
      use == IF gen.rack.counts[ml] > 0 THEN ml ELSE BLANK_MACHINE_LETTER
      score == IF gen.rack.counts[ml] > 0 THEN tile_scores[ml + 1] ELSE 0
      taken == [gen EXCEPT
                  !.rack = [counts |-> [gen.rack.counts EXCEPT ![use] = @ - 1],
                            total |-> gen.rack.total - 1],
                  !.rack_bits = IF gen.rack.counts[use] = 1 THEN @ \ {use} ELSE @]
      removed == remove_score_from_descending(taken, score)
      lsm == MULT_SMALL(score, letter_mult)
  IN IF ~is_single_bit(possible_tiles) THEN [gen |-> gen, restricted |-> FALSE]
     ELSE IF gen.rack.counts[ml] = 0 /\ gen.rack.counts[BLANK_MACHINE_LETTER] = 0
     THEN [gen |-> gen, restricted |-> FALSE]
     ELSE [gen |-> [removed EXCEPT
                      !.shadow_mainword_restricted_score = @ + lsm,
                      !.shadow_perpendicular_additional_score =
                         IF gen.row_cross_scores[col] >= 0
                         THEN @ + MULT_SMALL(lsm, word_mult) ELSE @],
           restricted |-> TRUE]

get_best_leave_for_tiles_remaining(gen, tiles_remaining) ==
  IF tiles_remaining <= 0 \/ tiles_remaining > RACK_SIZE THEN 0
  ELSE gen.best_leaves[tiles_remaining - 1]

(* The sum of f over lo..hi *)
RECURSIVE SumOver(_, _, _)
SumOver(f, lo, hi) ==
  IF lo > hi THEN 0
  ELSE IF lo = hi THEN f[lo]
  ELSE SumOver(f, lo, (lo + hi) \div 2) + SumOver(f, (lo + hi) \div 2 + 1, hi)

shadow_endgame_adjustment(gen, tiles_played) ==
  IF gen.shadow_original_rack_total > tiles_played
  THEN endgame_nonoutplay_adjustment(
         SumOver(gen.descending_tile_scores, tiles_played,
                 gen.shadow_original_rack_total - 1))
  ELSE IF ~gen.opp_rack.null
  THEN endgame_outplay_adjustment(rack_get_score(gen.opp_rack))
  ELSE 0

shadow_record(gen) ==
  LET loop_count == IF gen.num_unrestricted_multipliers > gen.rack.total
                    THEN gen.rack.total ELSE gen.num_unrestricted_multipliers
      tiles_played_score ==
        SumOver([i \in Slots |-> gen.descending_tile_scores[i]
                                 * gen.descending_effective_letter_multipliers[i]],
                0, loop_count - 1)
      bingo_bonus == IF gen.tiles_played >= RACK_SIZE THEN BINGO_BONUS ELSE 0
      main_word_contrib == gen.shadow_mainword_restricted_score * gen.shadow_word_multiplier
      score == tiles_played_score + main_word_contrib
               + gen.shadow_perpendicular_additional_score + bingo_bonus
      equity == IF gen.tiles_in_bag > 0
                THEN (IF ~gen.klv.null
                      THEN score + get_best_leave_for_tiles_remaining(
                                     gen, gen.shadow_original_rack_total - gen.tiles_played)
                      ELSE score)
                ELSE score + shadow_endgame_adjustment(gen, gen.tiles_played)
  IN [gen EXCEPT
        !.highest_shadow_equity = IF equity > @ THEN equity ELSE @,
        !.highest_shadow_score = IF score > @ THEN score ELSE @]

(* The tiles on the board next to col, away from it in direction step, *)
(* add their scores to the main word                                    *)
ScanPlaythrough(gen, col, step) ==
  LET run == {c \in Lanes :
                /\ (c - col) * step >= 0
                /\ \A d \in Lanes : ((d - col) * step >= 0 /\ (c - d) * step >= 0)
                     => gen.row_letters[d] /= ALPHABET_EMPTY_SQUARE_MARKER}
      lo == CHOOSE c \in run : \A o \in run : c <= o
      hi == CHOOSE c \in run : \A o \in run : o <= c
  IN IF run = {} THEN [score |-> 0, count |-> 0]
     ELSE [score |-> SumOver([c \in Lanes |-> get_tile_score(gen.row_letters[c])], lo, hi),
           count |-> Cardinality(run)]

(* The play that ends at col is recorded with the tiles that follow it *)
RecordThrough(g, col) ==
  shadow_record(maybe_recalc_effective_multipliers(
    [g EXCEPT !.shadow_mainword_restricted_score =
                 @ + ScanPlaythrough(g, col + 1, 1).score]))

(* The perpendicular score and the word multiplier of a tile put on col *)
AddCrossWord(g, col) ==
  [g EXCEPT
     !.shadow_perpendicular_additional_score =
        IF g.row_cross_scores[col] >= 0
        THEN @ + MULT_SMALL(g.row_cross_scores[col], get_word_mult(g.row_bonuses[col]))
        ELSE @,
     !.shadow_word_multiplier = MULT_SMALL(@, get_word_mult(g.row_bonuses[col]))]

(* try_restrict_tile on col, and insert_unrestricted_multipliers when it *)
(* did not restrict                                                      *)
RestrictOrInsert(tried, g, col) ==
  IF tried.restricted THEN tried.gen ELSE insert_unrestricted_multipliers(g, col)

PlaceTile(g, possible, col) ==
  RestrictOrInsert(try_restrict_tile(g, possible, get_letter_mult(g.row_bonuses[col]),
                                     get_word_mult(g.row_bonuses[col]), col),
                   g, col)

(* shadow_play_right, a tile goes on the empty square col: s is the loop *)
(* state, g the generator state with the perpendicular score added       *)
RightPlaced(s, restricted, g4, col) ==
  [s EXCEPT !.gen = [RecordThrough(g4, col) EXCEPT
                        !.shadow_mainword_restricted_score =
                           g4.shadow_mainword_restricted_score],
            !.restricted_any = @ \/ restricted,
            !.saved_multipliers = @ \/ ~restricted,
            !.changed_multipliers = @ \/ ~restricted]

RightTried(s, tried, g, col) ==
  RightPlaced(s, tried.restricted,
              IF tried.restricted THEN tried.gen
              ELSE insert_unrestricted_multipliers(
                     IF s.saved_multipliers THEN g
                     ELSE [g EXCEPT
                             !.desc_xw_muls_copy = g.descending_cross_word_multipliers,
                             !.desc_eff_letter_muls_copy =
                                g.descending_effective_letter_multipliers],
                     col),
              col)

RightPlace(s, g, possible, col) ==
  RightTried(s, try_restrict_tile(g, possible, get_letter_mult(g.row_bonuses[col]),
                                  get_word_mult(g.row_bonuses[col]), col),
             g, col)

(* shadow_play_right on the empty square col, tiles_played counted *)
RightEmpty(s, g1, col) ==
  LET cross_ext == g1.row_cross_sets[col] \cap g1.right_ext_set
      possible == IF g1.rack.counts[BLANK_MACHINE_LETTER] > 0 THEN cross_ext
                  ELSE cross_ext \cap g1.rack_bits
  IN IF g1.tiles_played > g1.shadow_original_rack_total
     THEN [s EXCEPT !.gen = RecordThrough(g1, col), !.done = TRUE]
     ELSE IF possible = {}
     THEN [s EXCEPT !.gen = [g1 EXCEPT !.right_ext_set = TRIVIAL_CROSS_SET], !.done = TRUE]
     ELSE RightPlace(s, AddCrossWord([g1 EXCEPT !.right_ext_set = TRIVIAL_CROSS_SET], col),
                     possible, col)

(* One round of the loop of shadow_play_right; s.done says the loop ended *)
ShadowRightStep(s) ==
  LET col == s.gen.shadow_right_col + 1
      existing == s.gen.row_letters[col]
  IN IF col >= BOARD_DIM
     THEN [s EXCEPT !.gen.shadow_right_col = col, !.done = TRUE]
     ELSE IF existing /= ALPHABET_EMPTY_SQUARE_MARKER
     THEN [s EXCEPT !.gen.shadow_right_col = col,
                    !.gen.shadow_mainword_restricted_score = @ + get_tile_score(existing)]
     ELSE RightEmpty(s, [s.gen EXCEPT !.shadow_right_col = col, !.tiles_played = @ + 1], col)

RECURSIVE ShadowRightRun(_, _)
ShadowRightRun(s, n) ==
  IF s.done THEN s
  ELSE IF n = 0 THEN ShadowRightStep(s)
  ELSE LET first == ShadowRightRun(s, n - 1)
       IN IF first.done THEN first ELSE ShadowRightRun(first, n - 1)

(* The end of shadow_play_right: gen is the state at entry, s the loop's *)
RightRestoreScalarsAndRack(gen, s) ==
  maybe_recalc_effective_multipliers(
    [s.gen EXCEPT
       !.shadow_mainword_restricted_score = gen.shadow_mainword_restricted_score,
       !.shadow_perpendicular_additional_score = gen.shadow_perpendicular_additional_score,
       !.shadow_word_multiplier = gen.shadow_word_multiplier,
       !.rack = IF s.restricted_any THEN gen.rack ELSE @,
       !.rack_bits = IF s.restricted_any THEN gen.rack_bits ELSE @,
       !.descending_tile_scores =
          IF s.restricted_any THEN gen.descending_tile_scores ELSE @,
       !.shadow_right_col = gen.shadow_right_col,
       !.tiles_played = gen.tiles_played])

RightRestore(gen, s) ==
  maybe_recalc_effective_multipliers(
    [s.gen EXCEPT
       !.shadow_mainword_restricted_score = gen.shadow_mainword_restricted_score,
       !.shadow_perpendicular_additional_score = gen.shadow_perpendicular_additional_score,
       !.shadow_word_multiplier = gen.shadow_word_multiplier,
       !.rack = IF s.restricted_any THEN gen.rack ELSE @,
       !.rack_bits = IF s.restricted_any THEN gen.rack_bits ELSE @,
       !.descending_tile_scores =
          IF s.restricted_any THEN gen.descending_tile_scores ELSE @,
       !.num_unrestricted_multipliers =
          IF s.changed_multipliers THEN gen.num_unrestricted_multipliers ELSE @,
       !.descending_cross_word_multipliers =
          IF s.changed_multipliers THEN s.gen.desc_xw_muls_copy ELSE @,
       !.descending_effective_letter_multipliers =
          IF s.changed_multipliers THEN s.gen.desc_eff_letter_muls_copy ELSE @,
       !.shadow_right_col = gen.shadow_right_col,
       !.tiles_played = gen.tiles_played])

(* The state that shadow_play_right saves at entry and puts back *)
ShadowState(gen) ==
  [rack |-> gen.rack, rack_bits |-> gen.rack_bits,
   descending_tile_scores |-> gen.descending_tile_scores,
   num_unrestricted_multipliers |-> gen.num_unrestricted_multipliers,
   descending_cross_word_multipliers |->
     [i \in 0..(gen.num_unrestricted_multipliers - 1) |->
        gen.descending_cross_word_multipliers[i]],
   descending_effective_letter_multipliers |->
     [i \in 0..(gen.num_unrestricted_multipliers - 1) |->
        gen.descending_effective_letter_multipliers[i]],
   shadow_word_multiplier |-> gen.shadow_word_multiplier,
   shadow_mainword_restricted_score |-> gen.shadow_mainword_restricted_score,
   shadow_perpendicular_additional_score |-> gen.shadow_perpendicular_additional_score,
   shadow_right_col |-> gen.shadow_right_col,
   tiles_played |-> gen.tiles_played]

(* gen.right_calls keeps the number of calls of shadow_play_right, whether *)
(* one of them saved the multiplier tables after a tile had been           *)
(* restricted, and the calls that left a state other than the one at entry *)
RightLogged(log, gen, s, left) ==
  [calls |-> log.calls + 1,
   lazy |-> log.lazy \/ (s.restricted_any /\ s.saved_multipliers),
   unrestored |-> IF ShadowState(left) = ShadowState(gen) THEN log.unrestored
                  ELSE log.unrestored \cup {[entry |-> ShadowState(gen),
                                             exit |-> ShadowState(left)]}]

RightLoop(gen) ==
  ShadowRightRun([gen |-> gen, done |-> FALSE, saved_multipliers |-> FALSE,
                  restricted_any |-> FALSE, changed_multipliers |-> FALSE],
                 MaxLoopDepth)

shadow_play_right(gen) ==
  [RightRestore(gen, RightLoop(gen))
   EXCEPT !.right_calls = RightLogged(@, gen, RightLoop(gen),
                                      RightRestore(gen, RightLoop(gen)))]

(* The start of a round of either left loop: extend to the right first *)
TryRight(gen, has_blank) ==
  [(IF (IF has_blank THEN gen.right_ext_set ELSE gen.right_ext_set \cap gen.rack_bits) /= {}
    THEN shadow_play_right(gen) ELSE gen)
   EXCEPT !.right_ext_set = TRIVIAL_CROSS_SET]

(* The rack is used up: run through the tiles to the left and record *)
LeftThroughTiles(gen) ==
  LET scan == ScanPlaythrough(gen, gen.shadow_left_col - 1, -1)
  IN shadow_record(maybe_recalc_effective_multipliers(
       [gen EXCEPT !.shadow_left_col = @ - scan.count,
                   !.shadow_mainword_restricted_score = @ + scan.score]))

(* A round of nonplaythrough_shadow_play_left after its try to the right *)
NonplaythroughLeft(s, g0) ==
  LET col == g0.shadow_left_col - 1
      left_ml == g0.row_letters[col]
      possible_left == IF s.has_blank THEN g0.left_ext_set
                       ELSE g0.left_ext_set \cap g0.rack_bits
  IN IF g0.shadow_left_col = 0 THEN [s EXCEPT !.gen = g0, !.done = TRUE]
     ELSE IF g0.tiles_played >= g0.shadow_original_rack_total
     THEN [s EXCEPT !.gen = IF left_ml = ALPHABET_EMPTY_SQUARE_MARKER THEN g0
                            ELSE LeftThroughTiles(g0),
                    !.done = TRUE]
     ELSE IF left_ml /= ALPHABET_EMPTY_SQUARE_MARKER
     THEN [s EXCEPT !.gen = [g0 EXCEPT !.shadow_left_col = col,
                                       !.shadow_mainword_restricted_score =
                                          @ + get_tile_score(left_ml)]]
     ELSE IF possible_left = {} THEN [s EXCEPT !.gen = g0, !.done = TRUE]
     ELSE [s EXCEPT !.gen =
             shadow_record(PlaceTile(
               [g0 EXCEPT !.left_ext_set = TRIVIAL_CROSS_SET,
                          !.shadow_left_col = col,
                          !.tiles_played = @ + 1,
                          !.shadow_word_multiplier =
                             MULT_SMALL(@, get_word_mult(g0.row_bonuses[col]))],
               possible_left \cap g0.row_cross_sets[col], col))]

(* One round of the loop of nonplaythrough_shadow_play_left *)
NonplaythroughLeftStep(s) == NonplaythroughLeft(s, TryRight(s.gen, s.has_blank))

RECURSIVE NonplaythroughLeftRun(_, _)
NonplaythroughLeftRun(s, n) ==
  IF s.done THEN s
  ELSE IF n = 0 THEN NonplaythroughLeftStep(s)
  ELSE LET first == NonplaythroughLeftRun(s, n - 1)
       IN IF first.done THEN first ELSE NonplaythroughLeftRun(first, n - 1)

nonplaythrough_shadow_play_left(gen) ==
  NonplaythroughLeftRun(
    [gen |-> [gen EXCEPT !.left_ext_set = TRIVIAL_CROSS_SET], done |-> FALSE,
     has_blank |-> gen.rack.counts[BLANK_MACHINE_LETTER] > 0],
    MaxLoopDepth).gen

(* A round of playthrough_shadow_play_left after its try to the right; *)
(* g is the state then, with left_ext_set not yet reset                *)
PlaythroughLeft(s, g) ==
  LET possible_left == IF s.has_blank THEN g.left_ext_set
                       ELSE g.left_ext_set \cap g.rack_bits
      col == g.shadow_left_col - 1
      left_ml == g.row_letters[col]
      cross_set == g.row_cross_sets[col]
  IN IF g.shadow_left_col = 0
     THEN [s EXCEPT !.gen = [g EXCEPT !.left_ext_set = TRIVIAL_CROSS_SET], !.done = TRUE]
     ELSE IF g.tiles_played >= g.shadow_original_rack_total
     THEN [s EXCEPT !.gen = IF left_ml = ALPHABET_EMPTY_SQUARE_MARKER
                            THEN [g EXCEPT !.left_ext_set = TRIVIAL_CROSS_SET]
                            ELSE LeftThroughTiles(
                                   [g EXCEPT !.left_ext_set = TRIVIAL_CROSS_SET]),
                    !.done = TRUE]
     ELSE IF left_ml /= ALPHABET_EMPTY_SQUARE_MARKER
     THEN [s EXCEPT !.gen = [g EXCEPT !.left_ext_set = TRIVIAL_CROSS_SET,
                                      !.shadow_left_col = col,
                                      !.shadow_mainword_restricted_score =
                                         @ + get_tile_score(left_ml)]]
     ELSE IF possible_left = {}
     THEN [s EXCEPT !.gen = [g EXCEPT !.left_ext_set = TRIVIAL_CROSS_SET], !.done = TRUE]
     ELSE IF possible_left \cap cross_set = {}
     THEN [s EXCEPT !.gen = [g EXCEPT !.left_ext_set = TRIVIAL_CROSS_SET,
                                      !.shadow_left_col = col, !.tiles_played = @ + 1],
                    !.done = TRUE]
     ELSE [s EXCEPT !.gen =
             shadow_record(maybe_recalc_effective_multipliers(PlaceTile(
               AddCrossWord([g EXCEPT !.left_ext_set = TRIVIAL_CROSS_SET,
                                      !.shadow_left_col = col, !.tiles_played = @ + 1],
                            col),
               possible_left \cap cross_set, col)))]

(* One round of the loop of playthrough_shadow_play_left *)
PlaythroughLeftStep(s) == PlaythroughLeft(s, TryRight(s.gen, s.has_blank))

RECURSIVE PlaythroughLeftRun(_, _)
PlaythroughLeftRun(s, n) ==
  IF s.done THEN s
  ELSE IF n = 0 THEN PlaythroughLeftStep(s)
  ELSE LET first == PlaythroughLeftRun(s, n - 1)
       IN IF first.done THEN first ELSE PlaythroughLeftRun(first, n - 1)

playthrough_shadow_play_left(gen) ==
  PlaythroughLeftRun([gen |-> gen, done |-> FALSE,
                      has_blank |-> gen.rack.counts[BLANK_MACHINE_LETTER] > 0],
                     MaxLoopDepth).gen

(* shadow_start_nonplaythrough once the tile of the anchor square is placed *)
StartPlaced(g2, col) ==
  nonplaythrough_shadow_play_left(maybe_recalc_effective_multipliers(shadow_record(
    [g2 EXCEPT
       !.tiles_played = @ + 1,
       !.shadow_mainword_restricted_score =
          @ + ScanPlaythrough(g2, col - 1, -1).score
            + ScanPlaythrough(g2, col + 1, 1).score])))

shadow_start_nonplaythrough(gen) ==
  LET col == gen.shadow_left_col
      cross_set == gen.row_cross_sets[col]
      possible == IF gen.rack.counts[BLANK_MACHINE_LETTER] > 0 THEN cross_set
                  ELSE cross_set \cap gen.rack_bits
      word_mult == get_word_mult(gen.row_bonuses[col])
  IN IF possible = {} THEN gen
     ELSE StartPlaced(
            PlaceTile([gen EXCEPT
                         !.shadow_perpendicular_additional_score =
                            IF gen.row_cross_scores[col] >= 0
                            THEN MULT_SMALL(gen.row_cross_scores[col], word_mult) ELSE @,
                         !.shadow_word_multiplier = word_mult],
                      possible, col),
            col)

shadow_start_playthrough(gen, current_letter) ==
  LET scan == ScanPlaythrough(gen, gen.shadow_left_col, -1)
  IN playthrough_shadow_play_left(
       [gen EXCEPT !.shadow_left_col = @ - (scan.count - 1),
                   !.shadow_mainword_restricted_score = @ + scan.score])

(* shadow_play_for_anchor once the state of the anchor is set up *)
ShadowStart(g, col) ==
  IF g.row_letters[col] = ALPHABET_EMPTY_SQUARE_MARKER
  THEN shadow_start_nonplaythrough(g)
  ELSE shadow_start_playthrough(g, g.row_letters[col])

shadow_play_for_anchor(gen, col) ==
  IF gen.rack.total = 0 THEN gen
  ELSE ShadowStart(
         [gen EXCEPT
            !.shadow_left_col = col,
            !.shadow_right_col = col,
            !.tiles_played = 0,
            !.shadow_original_rack_total = gen.rack.total,
            !.shadow_mainword_restricted_score = 0,
            !.shadow_perpendicular_additional_score = 0,
            !.shadow_word_multiplier = 1,
            !.num_unrestricted_multipliers = 0,
            !.last_word_multiplier = 1,
            !.descending_effective_letter_multipliers = [i \in Slots |-> 0],
            !.highest_shadow_equity = 0,
            !.highest_shadow_score = 0,
            !.left_ext_set = gen.row_leftx[col],
            !.right_ext_set = gen.row_rightx[col],
            !.rack_bits = build_rack_cross_set(gen.rack)],
         col)

(***************************************************************************)
(* The anchor heap                                                         *)
(***************************************************************************)
(* The heap keeps anchors[0..count-1]; the sequence holds them from 1 *)
anchor_heap_init == [anchors |-> <<>>, count |-> 0]

anchor_compare(a, b) ==
  IF a.highest_possible_equity /= b.highest_possible_equity
  THEN a.highest_possible_equity > b.highest_possible_equity
  ELSE a.scan_order < b.scan_order

HeapSwap(heap, i, j) ==
  [heap EXCEPT !.anchors = [@ EXCEPT ![i + 1] = heap.anchors[j + 1],
                                     ![j + 1] = heap.anchors[i + 1]]]

RECURSIVE anchor_heap_heapify_down(_, _)
anchor_heap_heapify_down(heap, i) ==
  LET count == heap.count
      left == 2 * i + 1
      right == 2 * i + 2
      first == IF left < count /\ anchor_compare(heap.anchors[left + 1], heap.anchors[i + 1])
               THEN left ELSE i
      largest == IF right < count
                    /\ anchor_compare(heap.anchors[right + 1], heap.anchors[first + 1])
                 THEN right ELSE first
  IN IF largest = i THEN heap
     ELSE anchor_heap_heapify_down(HeapSwap(heap, i, largest), largest)

RECURSIVE anchor_heap_heapify_up(_, _)
anchor_heap_heapify_up(heap, i) ==
  LET parent == (i - 1) \div 2
  IN IF i = 0 THEN heap
     ELSE IF ~anchor_compare(heap.anchors[i + 1], heap.anchors[parent + 1]) THEN heap
     ELSE anchor_heap_heapify_up(HeapSwap(heap, i, parent), parent)

anchor_heap_insert(heap, anchor) ==
  IF heap.count >= MAX_ANCHORS THEN heap
  ELSE anchor_heap_heapify_up(
         [anchors |-> Append(SubSeq(heap.anchors, 1, heap.count), anchor),
          count |-> heap.count + 1],
         heap.count)

(* The anchor taken out and the heap left *)
anchor_heap_extract_max(heap) ==
  LET count == heap.count - 1
      moved == [anchors |-> [i \in 1..count |->
                               IF i = 1 THEN heap.anchors[count + 1] ELSE heap.anchors[i]],
                count |-> count]
  IN [out |-> heap.anchors[1],
      heap |-> IF count > 0 THEN anchor_heap_heapify_down(moved, 0) ELSE moved]

anchor_heap_is_empty(heap) == heap.count = 0

(* The loop of anchor_heap_build from index i down to 0 *)
RECURSIVE HeapBuildFrom(_, _, _)
HeapBuildFrom(heap, hi, lo) ==
  IF hi < lo THEN heap
  ELSE IF hi = lo THEN anchor_heap_heapify_down(heap, hi)
  ELSE LET first == HeapBuildFrom(heap, hi, (lo + hi) \div 2 + 1)
       IN IF Ready(first) THEN HeapBuildFrom(first, (lo + hi) \div 2, lo) ELSE first

anchor_heap_build(heap) ==
  IF heap.count <= 1 THEN heap
  ELSE HeapBuildFrom(heap, (heap.count - 2) \div 2, 0)

(***************************************************************************)
(* Move generation: exchanges and the entry point                          *)
(***************************************************************************)
ZeroMove ==
  [score |-> 0, equity |-> 0, move_type |-> 0, row_start |-> 0, col_start |-> 0,
   tiles_played |-> 0, tiles_length |-> 0, dir |-> 0, tiles |-> <<>>]

RECURSIVE SelectByMask(_, _, _, _)
SelectByMask(tiles, mask, bit_pos, wanted) ==
  IF bit_pos >= Len(tiles) THEN <<>>
  ELSE (IF HasBit(mask, 2 ^ bit_pos) = wanted THEN <<tiles[bit_pos + 1]>> ELSE <<>>)
       \o SelectByMask(tiles, mask, bit_pos + 1, wanted)

(* The loop that keeps the first exchange it meets *)
FirstExchange(leave, tiles, max_mask, none) ==
  [equity |-> leave[1], found |-> TRUE,
   move |-> [none.move EXCEPT !.move_type = GAME_EVENT_EXCHANGE,
                              !.row_start = 0, !.col_start = 0, !.dir = 0,
                              !.tiles_played = 1, !.tiles_length = 1, !.score = 0,
                              !.tiles = <<tiles[1]>>]]

(* The loop over masks 1..max_mask keeps the first mask whose leave is *)
(* the highest; leave[mask] is the value of the tiles the mask keeps.  *)
BestExchange(leave, tiles, max_mask, none) ==
  LET better == {mask \in 1..max_mask : leave[mask] > none.equity}
      best == CHOOSE mask \in better :
                \A o \in better : \/ leave[o] < leave[mask]
                                  \/ (leave[o] = leave[mask] /\ mask <= o)
      exchange_tiles == SelectByMask(tiles, best, 0, TRUE)
  IN IF better = {} THEN none
     ELSE [equity |-> leave[best], found |-> TRUE,
           move |-> [none.move EXCEPT !.move_type = GAME_EVENT_EXCHANGE,
                                      !.row_start = 0, !.col_start = 0, !.dir = 0,
                                      !.tiles_played = Len(exchange_tiles),
                                      !.tiles_length = Len(exchange_tiles),
                                      !.score = 0,
                                      !.tiles = exchange_tiles]]

ExchangeLoop(k, tiles, max_mask, none) ==
  BestExchange(Table([mask \in 1..max_mask |->
                        klv_get_leave_value(k, RackOf(SelectByMask(tiles, mask, 0, FALSE)))]),
               tiles, max_mask, none)

(* best_exchange is an uninitialised local and its equity field is never *)
(* assigned: uninit is what that field happens to hold.                  *)
generate_exchange_moves(gen, bag, uninit) ==
  LET none == [equity |-> EQUITY_INITIAL_VALUE, found |-> FALSE,
               move |-> [ZeroMove EXCEPT !.equity = uninit]]
  IN IF bag.null \/ bag.count < RACK_SIZE THEN none
     ELSE IF gen.klv.null THEN none
     ELSE ExchangeLoop(gen.klv, RackTiles(gen.rack), 2 ^ gen.rack.total - 1, none)

(* The generator state at the start of generate_moves, leave_map being *)
(* the leave map of the rack                                           *)
GenState(b, rack, opp_rack, kwg, k, bag, leave_map) ==
  [board |-> b, kwg |-> kwg, klv |-> k, opp_rack |-> opp_rack,
   tiles_in_bag |-> IF bag.null THEN 0 ELSE bag.count,
   best_move |-> ZeroMove, best_equity |-> EQUITY_INITIAL_VALUE, move_count |-> 0,
   rack |-> rack,
   leave_map |-> leave_map,
   current_row |-> 0, dir |-> 0, anchor_col |-> 0, last_anchor_col |-> 0,
   strip |-> [col \in Lanes |-> 0], tiles_played |-> 0,
   left_ext_set |-> {}, right_ext_set |-> {},
   main_word_score |-> 0, cross_score |-> 0, word_multiplier |-> 0,
   row_letters |-> [col \in Lanes |-> 0], row_cross_sets |-> [col \in Lanes |-> {}],
   row_cross_scores |-> [col \in Lanes |-> 0], row_leftx |-> [col \in Lanes |-> {}],
   row_rightx |-> [col \in Lanes |-> {}], row_bonuses |-> [col \in Lanes |-> 0],
   row_is_anchor |-> [col \in Lanes |-> FALSE],
   rack_bits |-> build_rack_cross_set(rack),
   shadow_mainword_restricted_score |-> 0, shadow_perpendicular_additional_score |-> 0,
   shadow_word_multiplier |-> 0, highest_shadow_equity |-> 0, highest_shadow_score |-> 0,
   shadow_left_col |-> 0, shadow_right_col |-> 0,
   descending_tile_scores |-> [i \in Slots |-> 0],
   descending_cross_word_multipliers |-> [i \in Slots |-> [multiplier |-> 0, column |-> 0]],
   descending_effective_letter_multipliers |-> [i \in Slots |-> 0],
   num_unrestricted_multipliers |-> 0, last_word_multiplier |-> 0,
   desc_xw_muls_copy |-> [i \in Slots |-> [multiplier |-> 0, column |-> 0]],
   desc_eff_letter_muls_copy |-> [i \in Slots |-> 0],
   anchor_heap |-> anchor_heap_init, shadow_original_rack_total |-> 0,
   best_leaves |-> Table([i \in Slots |-> IF k.null THEN 0 ELSE leave_map.best_leaves[i + 1]]),
   stack |-> <<>>, recorded |-> <<>>, anchors |-> <<>>, processed |-> <<>>,
   generated |-> <<>>, extracted |-> <<>>,
   right_calls |-> [calls |-> 0, lazy |-> FALSE, unrestored |-> {}],
   inserts |-> [calls |-> 0, failed |-> 0]]

gen_init(b, rack, opp_rack, kwg, k, bag) ==
  GenState(b, rack, opp_rack, kwg, k, bag,
           IF k.null
           THEN [leave_values |-> [i \in 0..(LEAVE_MAP_SIZE - 1) |-> 0],
                 letter_base_index |-> [ml \in 0..(ALPHABET_SIZE - 1) |-> 0],
                 reversed_bit_map |-> [j \in 0..(RACK_SIZE - 1) |-> 0],
                 current_index |-> 0, rack_size |-> 0,
                 best_leaves |-> [i \in 0..RACK_SIZE |-> 0]]
           ELSE leave_map_init(k, rack))

(* A loop over the anchors of the heap runs at most 2^MaxHeapDepth rounds *)
MaxHeapDepth == 8

(* gen_shadow after shadow_play_for_anchor on the anchor of column col: *)
(* gen is the state before it, played the state after it. gen.inserts   *)
(* counts the calls of anchor_heap_insert and those that returned 0.    *)
AnchorDone(gen, col, played) ==
  LET row == gen.current_row
      h == (gen.dir = DIR_HORIZONTAL)
      anchor == [row |-> IF h THEN row ELSE col,
                 col |-> IF h THEN col ELSE row,
                 dir |-> gen.dir,
                 last_anchor_col |-> gen.last_anchor_col,
                 highest_possible_equity |-> played.highest_shadow_equity,
                 highest_possible_score |-> played.highest_shadow_score,
                 scan_order |-> IF h THEN row * BOARD_DIM + col
                                ELSE 225 + col * BOARD_DIM + row]
  IN [played EXCEPT
        !.rack = gen.rack,
        !.descending_tile_scores = gen.descending_tile_scores,
        !.anchor_heap = anchor_heap_insert(@, anchor),
        !.inserts = [calls |-> @.calls + 1,
                     failed |-> @.failed
                                + (IF played.anchor_heap.count >= MAX_ANCHORS THEN 1 ELSE 0)],
        !.last_anchor_col = col]

(* The column loop of gen_shadow over the columns lo..hi of the cached row *)
RECURSIVE ShadowCols(_, _, _)
ShadowCols(gen, lo, hi) ==
  IF lo < hi
  THEN LET first == ShadowCols(gen, lo, (lo + hi) \div 2)
       IN IF Ready(first) THEN ShadowCols(first, (lo + hi) \div 2 + 1, hi) ELSE first
  ELSE IF ~is_anchor(gen, lo) THEN gen
  ELSE AnchorDone(gen, lo, shadow_play_for_anchor(gen, lo))

RECURSIVE ShadowRows(_, _, _, _)
ShadowRows(gen, lo, hi, dir) ==
  IF lo < hi
  THEN LET first == ShadowRows(gen, lo, (lo + hi) \div 2, dir)
       IN IF Ready(first) THEN ShadowRows(first, (lo + hi) \div 2 + 1, hi, dir) ELSE first
  ELSE ShadowCols([cache_row(gen, lo, dir) EXCEPT !.last_anchor_col = BOARD_DIM],
                  0, BOARD_DIM - 1)

(* The direction loop of gen_shadow: dir, then the directions after it; *)
(* on an empty board only the horizontal one                            *)
RECURSIVE ShadowDirs(_, _)
ShadowDirs(gen, dir) ==
  LET center_idx == (BOARD_DIM \div 2) * BOARD_DIM + (BOARD_DIM \div 2)
      max_dir == IF gen.board.h_letters[center_idx] = ALPHABET_EMPTY_SQUARE_MARKER
                 THEN 1 ELSE 2
  IN IF dir >= max_dir THEN gen
     ELSE LET first == ShadowRows(gen, 0, BOARD_DIM - 1, dir)
          IN IF Ready(first) THEN ShadowDirs(first, dir + 1) ELSE first

gen_shadow(gen) ==
  [ShadowDirs(build_descending_tile_scores([gen EXCEPT !.anchor_heap = anchor_heap_init]),
              DIR_HORIZONTAL)
   EXCEPT !.anchor_heap = anchor_heap_build(@)]

(* The test that ends the heap loop at the anchor taken from the heap *)
EarlyCutoff(gen, anchor) ==
  /\ gen.best_equity > EQUITY_INITIAL_VALUE
  /\ anchor.highest_possible_equity < gen.best_equity

(* The heap loop of generate_moves with the anchor taken from the heap: *)
(* g0 is the state after anchor_heap_extract_max. gen.extracted keeps   *)
(* every anchor taken, the best equity at that time, and whether the    *)
(* loop ended there.                                                    *)
HeapLoopAnchor(s, g0, anchor, rack, cutoff) ==
  LET row == IF anchor.dir = DIR_HORIZONTAL THEN anchor.row ELSE anchor.col
      anchor_col == IF anchor.dir = DIR_HORIZONTAL THEN anchor.col ELSE anchor.row
      taken(cut) == [anchor |-> anchor, best_equity |-> g0.best_equity, cut |-> cut,
                     left |-> g0.anchor_heap.count]
  IN IF cutoff /\ EarlyCutoff(g0, anchor)
     THEN [s EXCEPT !.gen = [g0 EXCEPT !.extracted = Append(@, taken(TRUE))],
                    !.done = TRUE]
     ELSE [s EXCEPT
             !.gen = [gen_for_anchor(
                        [(IF row /= s.cached_row \/ anchor.dir /= s.cached_dir
                          THEN cache_row(g0, row, anchor.dir) ELSE g0)
                         EXCEPT !.last_anchor_col = anchor.last_anchor_col,
                                !.rack = rack,
                                !.leave_map.current_index = 0],
                        anchor_col)
                      EXCEPT !.processed = Append(@, anchor),
                             !.extracted = Append(@, taken(FALSE))],
             !.cached_row = row, !.cached_dir = anchor.dir]

HeapLoopTaken(s, taken, rack, cutoff) ==
  HeapLoopAnchor(s, [s.gen EXCEPT !.anchor_heap = taken.heap], taken.out, rack, cutoff)

(* One round of the heap loop of generate_moves. cutoff says whether the *)
(* build stops at an anchor whose bound is below the best equity.        *)
HeapLoopStep(s, rack, cutoff) ==
  IF anchor_heap_is_empty(s.gen.anchor_heap) THEN [s EXCEPT !.done = TRUE]
  ELSE HeapLoopTaken(s, anchor_heap_extract_max(s.gen.anchor_heap), rack, cutoff)

RECURSIVE HeapLoopRun(_, _, _, _)
HeapLoopRun(s, rack, cutoff, n) ==
  IF s.done THEN s
  ELSE IF n = 0 THEN HeapLoopStep(s, rack, cutoff)
  ELSE LET first == HeapLoopRun(s, rack, cutoff, n - 1)
       IN IF first.done THEN first ELSE HeapLoopRun(first, rack, cutoff, n - 1)

(* The heap loop from the state gen_shadow leaves *)
HeapLoop(shadowed, rack, cutoff) ==
  HeapLoopRun([gen |-> [shadowed EXCEPT !.rack = rack,
                                        !.rack_bits = build_rack_cross_set(rack),
                                        !.anchors = shadowed.anchor_heap.anchors],
               cached_row |-> -1, cached_dir |-> -1, done |-> FALSE],
              rack, cutoff, MaxHeapDepth).gen

(* The anchor loop of the builds with the shadow pass, after gen_shadow *)
generate_shadow(gen, rack, cutoff) == HeapLoop(gen_shadow(gen), rack, cutoff)

(* The row loop of generate_moves over the rows lo..hi of one direction *)
RECURSIVE GenRows(_, _, _, _)
GenRows(gen, lo, hi, dir) ==
  IF lo < hi
  THEN LET first == GenRows(gen, lo, (lo + hi) \div 2, dir)
       IN IF Ready(first) THEN GenRows(first, (lo + hi) \div 2 + 1, hi, dir) ELSE first
  ELSE gen_for_row(cache_row(gen, lo, dir))

(* The scan that always takes both directions *)
GenBothDirs(gen, dir) ==
  LET first == GenRows(gen, 0, BOARD_DIM - 1, DIR_HORIZONTAL)
  IN IF Ready(first) THEN GenRows(first, 0, BOARD_DIM - 1, DIR_VERTICAL) ELSE first

(* The direction loop of the build without the shadow pass *)
RECURSIVE GenDirs(_, _)
GenDirs(gen, dir) ==
  LET center_idx == (BOARD_DIM \div 2) * BOARD_DIM + (BOARD_DIM \div 2)
      max_dir == IF gen.board.h_letters[center_idx] = ALPHABET_EMPTY_SQUARE_MARKER
                 THEN 1 ELSE 2
  IN IF dir >= max_dir THEN gen
     ELSE LET first == GenRows(gen, 0, BOARD_DIM - 1, dir)
          IN IF Ready(first) THEN GenDirs(first, dir + 1) ELSE first

(* The full row scan of the build without the shadow pass *)
generate_noshadow(gen) == GenDirs(gen, DIR_HORIZONTAL)

(* The end of generate_moves: the best play against the best exchange ex. *)
(* best_move, recorded, anchors, processed, generated and extracted tell   *)
(* what the search did; board is the board the search leaves.             *)
(* The comparison that takes any exchange that was found *)
UseExchangeWhenFound(gen, ex) == ex.equity > EQUITY_INITIAL_VALUE

(* The two branches that copy best_exchange over the best play *)
UseExchange(gen, ex) ==
  \/ (ex.equity > gen.best_equity /\ gen.move_count > 0)
  \/ (gen.move_count = 0 /\ ex.equity > EQUITY_INITIAL_VALUE)

CompareExchange(gen, ex) ==
  LET use_exchange == UseExchange(gen, ex)
      best_equity == IF use_exchange THEN ex.equity ELSE gen.best_equity
  IN [count |-> IF best_equity > EQUITY_INITIAL_VALUE THEN 1 ELSE 0,
      moves |-> IF use_exchange THEN ex.move ELSE gen.best_move,
      best_move |-> gen.best_move, best_equity |-> gen.best_equity,
      move_count |-> gen.move_count, best_exchange_equity |-> ex.equity,
      best_exchange |-> ex.move,
      recorded |-> gen.recorded, anchors |-> gen.anchors, processed |-> gen.processed,
      generated |-> gen.generated, extracted |-> gen.extracted, board |-> gen.board,
      right_calls |-> gen.right_calls]

generate_finish(gen, bag, uninit) ==
  CompareExchange(gen, generate_exchange_moves(gen, bag, uninit))

(* The builds of generate_moves: the full row scan, the shadow pass with *)
(* the cutoff, and the shadow pass that checks every anchor              *)
Builds == {"noshadow", "shadow", "debug"}

(* The search of a build from the state gen_init leaves *)
Search(build, gen, rack) ==
  IF build = "noshadow" THEN generate_noshadow(gen)
  ELSE generate_shadow(gen, rack, build = "shadow")

generate_moves(build, b, rack, opp_rack, kwg, k, bag, uninit) ==
  generate_finish(Search(build, gen_init(b, rack, opp_rack, kwg, k, bag), rack),
                  bag, uninit)

(* The hybrid build takes the shadow pass for a rack with a blank *)
HybridBuild(rack) ==
  IF rack.counts[BLANK_MACHINE_LETTER] > 0 THEN "shadow" ELSE "noshadow"

(***************************************************************************)
(* Scoring and playing a move (game.c)                                     *)
(***************************************************************************)
RECURSIVE ProductOver(_, _, _)
ProductOver(f, lo, hi) == IF lo > hi THEN 1 ELSE f[lo] * ProductOver(f, lo + 1, hi)

(* score_move: the score in points *)
score_move(b, move) ==
  LET n == move.tiles_length
      idx(i) == IF move.dir = DIR_HORIZONTAL
                THEN move.row_start * BOARD_DIM + move.col_start + (i - 1)
                ELSE (move.row_start + (i - 1)) * BOARD_DIM + move.col_start
      tile(i) == move.tiles[i]
      fresh(i) == tile(i) # PLAYED_THROUGH_MARKER
      shown(i) == IF fresh(i) THEN tile(i) ELSE b.h_letters[idx(i)]
      tile_score(i) == IF IS_BLANKED(shown(i)) THEN 0 ELSE TILE_SCORES[UNBLANKED(shown(i)) + 1]
      letter_mult(i) == get_letter_mult(BONUS_LAYOUT[idx(i)])
      word_mult(i) == get_word_mult(BONUS_LAYOUT[idx(i)])
      cross_score(i) == IF move.dir = DIR_HORIZONTAL THEN b.h_cross_scores[idx(i)]
                        ELSE b.v_cross_scores[idx(i)]
      main_word_score ==
        SumOver([i \in 1..n |-> IF fresh(i) THEN tile_score(i) * letter_mult(i)
                                ELSE tile_score(i)], 1, n)
      word_multiplier == ProductOver([i \in 1..n |-> IF fresh(i) THEN word_mult(i) ELSE 1], 1, n)
      cross_word_score ==
        SumOver([i \in 1..n |->
                   IF fresh(i) /\ cross_score(i) >= 0
                   THEN (tile_score(i) * letter_mult(i) + cross_score(i)) * word_mult(i)
                   ELSE 0], 1, n)
      tiles_played == Cardinality({i \in 1..n : fresh(i)})
  IN main_word_score * word_multiplier + cross_word_score
     + (IF tiles_played = RACK_SIZE THEN 50 ELSE 0)

(* rack_remove_tile: the rack after it and what it returns *)
rack_remove_tile(rack, tile) ==
  IF rack.counts[tile] = 0 THEN [ok |-> FALSE, rack |-> rack]
  ELSE [ok |-> TRUE,
        rack |-> [counts |-> [rack.counts EXCEPT ![tile] = @ - 1], total |-> rack.total - 1]]

(* The loop of game_play_move that takes the tiles of the move from the rack *)
RECURSIVE RemoveTilesFrom(_, _, _)
RemoveTilesFrom(rack, move, i) ==
  IF i >= move.tiles_length THEN [ok |-> TRUE, rack |-> rack]
  ELSE LET tile == move.tiles[i + 1]
           rack_tile == IF IS_BLANKED(tile) THEN BLANK_MACHINE_LETTER ELSE tile
           removed == rack_remove_tile(rack, rack_tile)
       IN IF tile = PLAYED_THROUGH_MARKER THEN RemoveTilesFrom(rack, move, i + 1)
          ELSE IF ~removed.ok THEN removed
          ELSE RemoveTilesFrom(removed.rack, move, i + 1)

(* game_play_move on the board and the rack of the player to move *)
game_play_move(b, rack, move) ==
  LET removed == RemoveTilesFrom(rack, move, 0)
  IN IF ~removed.ok THEN [ok |-> FALSE, rack |-> removed.rack, board |-> b]
     ELSE [ok |-> TRUE, rack |-> removed.rack, board |-> board_apply_move(b, move)]

(***************************************************************************)
(* The play loop (main.c): generate the best move for the rack of the      *)
(* player to move, then play it, exchange or pass.  The racks that the bag *)
(* deals, the opponent's rack, the bag count and the leave evaluator of a  *)
(* turn are drawn from Turns.                                              *)
(***************************************************************************)
VARIABLES board, rack, opp_rack, bag, klv, results, phase, slot

vars == <<board, rack, opp_rack, bag, klv, results, phase, slot>>

(* No more than MaxBoardTiles tiles are put on the board *)
MaxBoardTiles == 5

(* A rack handed to generate_moves by reference *)
RackRef(tiles) == [null |-> FALSE, counts |-> RackOf(tiles).counts, total |-> Len(tiles)]

BagOf(count) == [null |-> FALSE, count |-> count]

Turn(tiles, opp, count, k) ==
  [rack |-> RackOf(tiles), opp_rack |-> opp, bag |-> BagOf(count), klv |-> k]

Turns ==
  { Turn(<<0, 5>>, NULL_RACK, 0, NULL_KLV),
    Turn(<<0, 1, 4>>, NULL_RACK, 0, NULL_KLV),
    Turn(<<4, 5>>, RackRef(<<1, 24>>), 0, NULL_KLV),
    Turn(<<5, 5>>, NULL_RACK, 7, klv_data),
    Turn(<<4>>, NULL_RACK, 7, klv_data),
    Turn(<<1, 24>>, NULL_RACK, 7, klv_data),
    Turn(<<24>>, NULL_RACK, 0, NULL_KLV),
    Turn(<<1, 1, 4, 4, 5, 19, 24>>, NULL_RACK, 7, klv_data) }

(* What the equity field of the uninitialised best_exchange may hold *)
UninitEquity == {0, -1}

NoResult ==
  [count |-> 0, moves |-> ZeroMove, best_move |-> ZeroMove,
   best_equity |-> EQUITY_INITIAL_VALUE, move_count |-> 0,
   best_exchange_equity |-> EQUITY_INITIAL_VALUE, best_exchange |-> ZeroMove,
   recorded |-> <<>>, anchors |-> <<>>, processed |-> <<>>,
   generated |-> <<>>, extracted |-> <<>>, board |-> board_init,
   right_calls |-> [calls |-> 0, lazy |-> FALSE, unrestored |-> {}]]

NoResults == [build \in Builds |-> NoResult]

(* The best-move slot before any play is recorded, with the plays seen *)
EmptySlot == [best_equity |-> EQUITY_INITIAL_VALUE, best_move |-> ZeroMove, seen |-> {}]

Init ==
  /\ board = board_update_cross_sets(board_init, KWGNodes)
  /\ rack = rack_init
  /\ opp_rack = NULL_RACK
  /\ bag = BagOf(0)
  /\ klv = NULL_KLV
  /\ results = NoResults
  /\ phase = "turn"
  /\ slot = EmptySlot

(* generate_moves, in each build *)
GenerateMoves ==
  /\ phase = "turn"
  /\ \E t \in Turns : \E uninit \in UninitEquity :
       /\ rack' = t.rack
       /\ opp_rack' = t.opp_rack
       /\ bag' = t.bag
       /\ klv' = t.klv
       /\ results' = [build \in Builds |->
                        generate_moves(build, board, t.rack, t.opp_rack, KWGNodes,
                                       t.klv, t.bag, uninit)]
  /\ phase' = "generated"
  /\ UNCHANGED <<board, slot>>

EndTurn ==
  /\ rack' = rack_init
  /\ opp_rack' = NULL_RACK
  /\ bag' = BagOf(0)
  /\ klv' = NULL_KLV
  /\ results' = NoResults
  /\ phase' = "turn"
  /\ UNCHANGED slot

(* The best move is a tile placement: game_play_move, then the incremental *)
(* cross-set update when the move was accepted                             *)
PlayedBoard(b, played, best) ==
  IF played.ok THEN board_update_cross_sets_for_move(played.board, KWGNodes, best)
  ELSE b

PlayMove ==
  /\ phase = "generated"
  /\ \E build \in Builds :
       /\ results[build].count > 0
       /\ results[build].moves.move_type # GAME_EVENT_EXCHANGE
       /\ board.tiles_played + results[build].moves.tiles_played <= MaxBoardTiles
       /\ board' = PlayedBoard(board, game_play_move(board, rack, results[build].moves),
                               results[build].moves)
  /\ EndTurn

(* The best move is an exchange: game_exchange leaves the board alone *)
Exchange ==
  /\ phase = "generated"
  /\ \E build \in Builds :
       /\ results[build].count > 0
       /\ results[build].moves.move_type = GAME_EVENT_EXCHANGE
  /\ EndTurn
  /\ UNCHANGED board

(* No move: game_pass *)
Pass ==
  /\ phase = "generated"
  /\ \E build \in Builds : results[build].count = 0
  /\ EndTurn
  /\ UNCHANGED board

Next == GenerateMoves \/ PlayMove \/ Exchange \/ Pass

Spec == Init /\ [][Next]_vars

(***************************************************************************)
(* Boards built by any legal placements, each followed by the incremental  *)
(* cross-set update.                                                       *)
(***************************************************************************)
(* No more than MaxPlacedTiles tiles are put on these boards *)
MaxPlacedTiles == 4

(* The racks whose legal plays are placed *)
PlacingRacks == { RackOf(<<1, 4>>), RackOf(<<4, 5>>), RackOf(<<0, 24>>) }

(* board_apply_move, then board_update_cross_sets_for_move *)
PlaceAndUpdate(b, move) ==
  board_update_cross_sets_for_move(board_apply_move(b, move), KWGNodes, move)

PlaceLegal(dir) ==
  /\ board.tiles_played < MaxPlacedTiles
  /\ \E r \in PlacingRacks : \E move \in LegalPlays(board, r) :
       /\ move.dir = dir
       /\ board.tiles_played + move.tiles_played <= MaxPlacedTiles
       /\ board' = PlaceAndUpdate(board, move)
  /\ UNCHANGED <<rack, opp_rack, bag, klv, results, phase, slot>>

PlaceAcross == PlaceLegal(DIR_HORIZONTAL)

PlaceDown == PlaceLegal(DIR_VERTICAL)

NextBoard == PlaceAcross \/ PlaceDown

SpecBoard == Init /\ [][NextBoard]_vars

(* What the move generator reads on the square (row, col) *)
SquareData(b, row, col) ==
  << b.h_cross_sets[HIdx(row, col)], b.h_cross_scores[HIdx(row, col)],
     b.h_leftx[HIdx(row, col)], b.h_rightx[HIdx(row, col)],
     b.v_cross_sets[VIdx(row, col)], b.v_cross_scores[VIdx(row, col)],
     b.v_leftx[VIdx(row, col)], b.v_rightx[VIdx(row, col)] >>

SameOnEmptySquares(b, full) ==
  \A row \in Lanes : \A col \in Lanes :
    board_is_empty(b, row, col) => SquareData(b, row, col) = SquareData(full, row, col)

(* C4: after any sequence of legal placements, each followed by the       *)
(* incremental update board_update_cross_sets_for_move, every empty       *)
(* square has the cross-sets, cross-scores and left and right extension   *)
(* sets, in both directions, that the full rebuild board_update_cross_sets *)
(* computes for the same tiles.                                           *)
C4_IncrementalMatchesRebuild ==
  SameOnEmptySquares(board, board_update_cross_sets(board, KWGNodes))

(* A board reached by at least two placements, one of them vertical *)
C4_Witness ==
  /\ board.tiles_played >= 3
  /\ \E row \in Lanes : \E col \in Lanes :
       /\ row # 7
       /\ col # 7
       /\ ~board_is_empty(board, row, col)

(***************************************************************************)
(* record_move on candidate plays handed to it in any order.               *)
(***************************************************************************)
(* A candidate: the placement, the score the traversal has accumulated for *)
(* it and the leave value of the tiles kept.                               *)
Candidate(score, leave, row, col, dir, tiles) ==
  [score |-> score, leave |-> leave, row |-> row, col |-> col, dir |-> dir, tiles |-> tiles]

Candidates ==
  { Candidate(16, 0, 7, 7, DIR_HORIZONTAL, <<1, 4>>),
    Candidate(16, 8, 8, 8, DIR_VERTICAL, <<4, 1>>),
    Candidate(24, -8, 8, 7, DIR_HORIZONTAL, <<1, 4>>),
    Candidate(16, 0, 6, 8, DIR_HORIZONTAL, <<1, 4>>),
    Candidate(16, 0, 7, 6, DIR_VERTICAL, <<1, 4>>),
    Candidate(16, 0, 7, 7, DIR_VERTICAL, <<PLAYED_THROUGH_MARKER, 4>>),
    Candidate(16, 0, 7, 7, DIR_HORIZONTAL, <<PLAYED_THROUGH_MARKER, 4>>),
    Candidate(16, 0, 7, 7, DIR_HORIZONTAL, <<4>>),
    Candidate(16, 0, 7, 7, DIR_HORIZONTAL, <<4, 1>>),
    Candidate(8, 0, 6, 6, DIR_HORIZONTAL, <<1>>) }

LeftStrip(c) == IF c.dir = DIR_HORIZONTAL THEN c.col ELSE c.row

RightStrip(c) == LeftStrip(c) + Len(c.tiles) - 1

(* The generator state in which the traversal reaches record_move for the *)
(* candidate c, the best-move slot being sl                               *)
RecordGen(c, sl) ==
  [gen_init(board, rack_init, NULL_RACK, KWGNodes, klv_data, BagOf(RACK_SIZE)) EXCEPT
     !.leave_map.leave_values = [i \in 0..(LEAVE_MAP_SIZE - 1) |-> c.leave],
     !.leave_map.current_index = 0,
     !.dir = c.dir,
     !.current_row = IF c.dir = DIR_HORIZONTAL THEN c.row ELSE c.col,
     !.strip = [col \in Lanes |-> IF col >= LeftStrip(c) /\ col <= RightStrip(c)
                                  THEN c.tiles[col - LeftStrip(c) + 1] ELSE 0],
     !.tiles_played = CountFresh(c.tiles),
     !.main_word_score = c.score,
     !.word_multiplier = 1,
     !.cross_score = 0,
     !.best_equity = sl.best_equity,
     !.best_move = sl.best_move]

SlotAfter(g, sl, c) ==
  [best_equity |-> g.best_equity, best_move |-> g.best_move, seen |-> sl.seen \cup {c}]

RecordCandidate ==
  /\ \E c \in Candidates :
       slot' = SlotAfter(record_move(RecordGen(c, slot), LeftStrip(c), RightStrip(c)), slot, c)
  /\ UNCHANGED <<board, rack, opp_rack, bag, klv, results, phase>>

NextRecord == RecordCandidate

SpecRecord == Init /\ [][NextRecord]_vars

(***************************************************************************)
(* The properties                                                          *)
(***************************************************************************)
RECURSIVE SeqSum(_)
SeqSum(seq) == IF seq = <<>> THEN 0 ELSE Head(seq) + SeqSum(Tail(seq))

RECURSIVE SeqProduct(_)
SeqProduct(seq) == IF seq = <<>> THEN 1 ELSE Head(seq) * SeqProduct(Tail(seq))

(* The ordered comparator on two plays: higher equity, higher score, lower *)
(* row, lower column, horizontal first, fewer fresh tiles, shorter strip,  *)
(* lexicographically smaller strip                                         *)
StrictlyBetter(p, q) ==
  IF p.equity # q.equity THEN p.equity > q.equity
  ELSE IF p.score # q.score THEN p.score > q.score
  ELSE IF p.row_start # q.row_start THEN p.row_start < q.row_start
  ELSE IF p.col_start # q.col_start THEN p.col_start < q.col_start
  ELSE IF p.dir # q.dir THEN p.dir = DIR_HORIZONTAL
  ELSE IF p.tiles_played # q.tiles_played THEN p.tiles_played < q.tiles_played
  ELSE IF p.tiles_length # q.tiles_length THEN p.tiles_length < q.tiles_length
  ELSE \E i \in 1..p.tiles_length :
         /\ p.tiles[i] < q.tiles[i]
         /\ \A j \in 1..(i - 1) : p.tiles[j] = q.tiles[j]

(* The play of a candidate, as a Move *)
PlayOf(c) ==
  [score |-> c.score, equity |-> c.score + c.leave,
   move_type |-> GAME_EVENT_TILE_PLACEMENT_MOVE,
   row_start |-> c.row, col_start |-> c.col, tiles_played |-> CountFresh(c.tiles),
   tiles_length |-> Len(c.tiles), dir |-> c.dir, tiles |-> c.tiles]

CandidatePlays == { PlayOf(c) : c \in Candidates }

(* C5: whatever the order in which the candidates were recorded, the slot *)
(* holds the one play among them that is strictly better than every other *)
(* under the ordered comparator (so a candidate replaced the best exactly *)
(* when it was strictly better), and that comparator is a strict total    *)
(* order on distinct placements.                                          *)
C5_BestIsOrderIndependent ==
  /\ slot.seen # {} =>
       \E c \in slot.seen :
         /\ slot.best_move = PlayOf(c)
         /\ slot.best_equity = PlayOf(c).equity
         /\ \A d \in slot.seen \ {c} : StrictlyBetter(PlayOf(c), PlayOf(d))
  /\ \A p \in CandidatePlays : ~StrictlyBetter(p, p)
  /\ \A p \in CandidatePlays : \A q \in CandidatePlays \ {p} :
       StrictlyBetter(p, q) # StrictlyBetter(q, p)
  /\ \A p \in CandidatePlays : \A q \in CandidatePlays : \A r \in CandidatePlays :
       StrictlyBetter(p, q) /\ StrictlyBetter(q, r) => StrictlyBetter(p, r)

(* Four plays on the same squares with the same equity and score were     *)
(* recorded, and the last levels of the comparator chose among them       *)
C5_Witness ==
  /\ slot.seen = { c \in Candidates : c.row = 7 /\ c.col = 7 /\ c.dir = DIR_HORIZONTAL }
  /\ Cardinality(slot.seen) = 4
  /\ slot.best_move.tiles = <<4>>

(***************************************************************************)
(* The rules of scoring, stated on the board itself                        *)
(***************************************************************************)
MoveRow(m, i) == IF m.dir = DIR_HORIZONTAL THEN m.row_start ELSE m.row_start + i - 1

MoveCol(m, i) == IF m.dir = DIR_HORIZONTAL THEN m.col_start + i - 1 ELSE m.col_start

IsFresh(m, i) == m.tiles[i] # PLAYED_THROUGH_MARKER

(* The value of a tile in points: a blank scores nothing *)
PointsOf(ml) == IF IS_BLANKED(ml) THEN 0 ELSE TILE_SCORES[ml + 1]

PremiumAt(m, i) == BONUS_LAYOUT[HIdx(MoveRow(m, i), MoveCol(m, i))]

(* The tiles before and after square i of the move, across its direction *)
CrossRun(b, m, i) ==
  LET dr == IF m.dir = DIR_HORIZONTAL THEN 1 ELSE 0
      dc == IF m.dir = DIR_HORIZONTAL THEN 0 ELSE 1
  IN ScanRun(b, MoveRow(m, i), MoveCol(m, i), -dr, -dc)
     \o ScanRun(b, MoveRow(m, i), MoveCol(m, i), dr, dc)

(* The score of a placement in points: premiums on fresh squares only,    *)
(* each cross-word with the premiums of its fresh tile, 50 for seven tiles *)
RulesScore(b, m) ==
  LET n == m.tiles_length
      shown(i) == IF IsFresh(m, i) THEN m.tiles[i]
                  ELSE b.h_letters[HIdx(MoveRow(m, i), MoveCol(m, i))]
      placed(i) == IF IsFresh(m, i) THEN PointsOf(shown(i)) * get_letter_mult(PremiumAt(m, i))
                   ELSE PointsOf(shown(i))
      word_mult(i) == IF IsFresh(m, i) THEN get_word_mult(PremiumAt(m, i)) ELSE 1
      cross(i) == IF ~IsFresh(m, i) \/ CrossRun(b, m, i) = <<>> THEN 0
                  ELSE LET run == CrossRun(b, m, i)
                       IN (placed(i) + SeqSum([k \in 1..Len(run) |-> PointsOf(run[k])]))
                          * word_mult(i)
  IN SeqSum([i \in 1..n |-> placed(i)]) * SeqProduct([i \in 1..n |-> word_mult(i)])
     + SeqSum([i \in 1..n |-> cross(i)])
     + (IF m.tiles_played = RACK_SIZE THEN 50 ELSE 0)

(* The tiles of rk that the placement m leaves on the rack *)
LeaveAfter(rk, m) == RemoveTilesFrom(rk, m, 0).rack

(* The value of the tiles of a rack in eighths *)
RackEighths(rk) ==
  SeqSum([i \in 1..ALPHABET_SIZE |-> rk.counts[i - 1] * TILE_SCORES[i] * 8])

(* What the equity of a placement adds to its score: the leave value      *)
(* while tiles are in the bag, the endgame adjustment when there are none *)
RulesAdjustment(rk, opp, bg, k, m) ==
  LET leave == LeaveAfter(rk, m)
  IN IF ~bg.null /\ bg.count > 0
     THEN (IF k.null THEN 0 ELSE klv_get_leave_value(k, leave))
     ELSE IF leave.total > 0
     THEN -(2 * RackEighths(leave)) - NON_OUTPLAY_CONSTANT_PENALTY
     ELSE IF opp.null THEN 0
     ELSE 2 * RackEighths(opp)

(* The placement with the score and the equity of the rules *)
Valued(b, rk, opp, bg, k, m) ==
  [m EXCEPT !.score = 8 * RulesScore(b, m),
            !.equity = 8 * RulesScore(b, m) + RulesAdjustment(rk, opp, bg, k, m)]

(* The placement alone, without score and equity *)
Bare(m) == MakeMove(m.dir, m.row_start, m.col_start, m.tiles)

(* The build returned a tile placement *)
ReturnedPlacement(build) ==
  /\ phase = "generated"
  /\ results[build].count > 0
  /\ results[build].moves.move_type = GAME_EVENT_TILE_PLACEMENT_MOVE

(* The build returned an exchange *)
ReturnedExchange(build) ==
  /\ phase = "generated"
  /\ results[build].count > 0
  /\ results[build].moves.move_type = GAME_EVENT_EXCHANGE

(* The plays a build recorded, as a set of log entries *)
Recorded(build) == { results[build].recorded[i] : i \in 1..Len(results[build].recorded) }

(* C1: the tile placement a build of generate_moves returns is a legal    *)
(* play of the rack on the board, and no legal play is better than it:    *)
(* stated on the first key of the comparator, no legal play has a higher  *)
(* equity (score in eighths plus leave value or endgame adjustment) than  *)
(* the returned play has.                                                 *)
C1_BestPlacementIsOptimal ==
  \A build \in Builds :
    ReturnedPlacement(build) =>
      LET best == Valued(board, rack, opp_rack, bag, klv, Bare(results[build].moves))
      IN /\ Bare(results[build].moves) \in LegalPlays(board, rack)
         /\ \A p \in LegalPlays(board, rack) :
              Valued(board, rack, opp_rack, bag, klv, p).equity <= best.equity

(* Two results name the same move with the same score and equity *)
SameResult(a, b) == a.count = b.count /\ (a.count > 0 => a.moves = b.moves)

(* C2: on the same inputs the shadow build, the build without the shadow  *)
(* pass and the hybrid build return the same best move with the same      *)
(* score and equity.                                                      *)
C2_BuildsAgree ==
  phase = "generated" =>
    /\ SameResult(results["shadow"], results["noshadow"])
    /\ SameResult(results[HybridBuild(rack)], results["noshadow"])

(* The log entry r is a play that gen_for_anchor recorded for anchor a *)
RecordedFor(r, a) ==
  /\ r.move.dir = a.dir
  /\ r.last_anchor_col = a.last_anchor_col
  /\ IF a.dir = DIR_HORIZONTAL
     THEN r.move.row_start = a.row /\ r.anchor_col = a.col
     ELSE r.move.col_start = a.col /\ r.anchor_col = a.row

(* C3: the equity of every play that gen_for_anchor records for an anchor *)
(* is at most the bound gen_shadow computed for that anchor.              *)
C3_ShadowBoundAdmissible ==
  phase = "generated" =>
    \A i \in 1..Len(results["debug"].processed) :
      \A r \in Recorded("debug") :
        RecordedFor(r, results["debug"].processed[i]) =>
          r.move.equity <= results["debug"].processed[i].highest_possible_equity

(* The placement m is well-formed for board b and rack rk *)
WellFormed(b, rk, m) ==
  LET n == m.tiles_length
      last_row == MoveRow(m, n)
      last_col == MoveCol(m, n)
      fresh == { i \in 1..n : IsFresh(m, i) }
      needed(ml) == Cardinality({ i \in fresh :
                      (IF IS_BLANKED(m.tiles[i]) THEN BLANK_MACHINE_LETTER ELSE m.tiles[i]) = ml })
  IN /\ n >= 1 /\ n = Len(m.tiles)
     /\ m.dir \in {DIR_HORIZONTAL, DIR_VERTICAL}
     /\ m.row_start >= 0 /\ m.col_start >= 0
     /\ last_row < BOARD_DIM /\ last_col < BOARD_DIM
     /\ \A i \in 1..n :
          IF IsFresh(m, i)
          THEN /\ ~Occupied(b, MoveRow(m, i), MoveCol(m, i))
               /\ \/ m.tiles[i] \in 1..(ALPHABET_SIZE - 1)
                  \/ /\ IS_BLANKED(m.tiles[i])
                     /\ UNBLANKED(m.tiles[i]) \in 1..(ALPHABET_SIZE - 1)
          ELSE Occupied(b, MoveRow(m, i), MoveCol(m, i))
     /\ m.tiles_played = Cardinality(fresh)
     /\ m.tiles_played >= 1
     /\ \A ml \in 0..(ALPHABET_SIZE - 1) : needed(ml) <= rk.counts[ml]

(* C6: every tile placement a build of generate_moves returns is          *)
(* well-formed for the board and the rack it was generated from (strip on *)
(* the board, markers on occupied squares, fresh tiles on empty squares   *)
(* and never 0, tiles_played the number of fresh tiles and at least 1,    *)
(* fresh tiles on the rack), and game_play_move accepts it.               *)
C6_ReturnedPlacementWellFormed ==
  \A build \in Builds :
    ReturnedPlacement(build) =>
      /\ WellFormed(board, rack, results[build].moves)
      /\ game_play_move(board, rack, results[build].moves).ok

(* A build returned, for a rack that holds a blank, a placement that plays *)
(* through a tile of the board, and game_play_move took it                *)
C6_Witness ==
  \E build \in Builds :
    /\ ReturnedPlacement(build)
    /\ rack.counts[BLANK_MACHINE_LETTER] > 0
    /\ \E i \in 1..results[build].moves.tiles_length :
         results[build].moves.tiles[i] = PLAYED_THROUGH_MARKER
    /\ game_play_move(board, rack, results[build].moves).ok

(* An exchange is available: the bag holds a rack of tiles and there is a  *)
(* leave evaluator                                                        *)
ExchangeAvailable == ~bag.null /\ bag.count >= RACK_SIZE /\ ~klv.null

(* The leave values of the tiles kept, over every non-empty part of the   *)
(* rack given to the bag                                                  *)
KeepValues(k, rk) ==
  { klv_get_leave_value(k, RackOf(SelectByMask(RackTiles(rk), mask, 0, FALSE))) :
      mask \in 1..(2 ^ rk.total - 1) }

SetMax(S) == CHOOSE x \in S : \A y \in S : y <= x

C8_ScoreIsEightTimesScoreMove ==
  phase = "generated" =>
    \A build \in Builds : \A r \in Recorded(build) :
      r.move.score = 8 * score_move(board, r.move)

(* The cross-score the board caches for square i of the move: the tiles   *)
(* of the cross-word already on the board, or -1 when there is none       *)
CrossScoreAt(b, m, i) ==
  IF m.dir = DIR_HORIZONTAL THEN b.h_cross_scores[HIdx(MoveRow(m, i), MoveCol(m, i))]
  ELSE b.v_cross_scores[VIdx(MoveRow(m, i), MoveCol(m, i))]

(* What the generator adds up for a placement before any bonus: the main  *)
(* word in eighths with its premiums, and for every fresh tile with a     *)
(* cross-word the tile in eighths plus the cached cross-score             *)
ScoreBeforeBonus(b, m) ==
  LET n == m.tiles_length
      shown(i) == IF IsFresh(m, i) THEN m.tiles[i]
                  ELSE b.h_letters[HIdx(MoveRow(m, i), MoveCol(m, i))]
      placed(i) == IF IsFresh(m, i)
                   THEN 8 * PointsOf(shown(i)) * get_letter_mult(PremiumAt(m, i))
                   ELSE 8 * PointsOf(shown(i))
      word_mult(i) == IF IsFresh(m, i) THEN get_word_mult(PremiumAt(m, i)) ELSE 1
      cross(i) == IF IsFresh(m, i) /\ CrossScoreAt(b, m, i) >= 0
                  THEN (placed(i) + CrossScoreAt(b, m, i)) * word_mult(i)
                  ELSE 0
  IN SeqSum([i \in 1..n |-> placed(i)]) * SeqProduct([i \in 1..n |-> word_mult(i)])
     + SeqSum([i \in 1..n |-> cross(i)])

C10_EndgameEquity ==
  (phase = "generated" /\ bag.count = 0) =>
    \A build \in Builds : \A r \in Recorded(build) :
      LET leave == LeaveAfter(rack, r.move)
      IN r.move.equity =
           r.move.score
           + (IF leave.total > 0
              THEN -(2 * RackEighths(leave)) - NON_OUTPLAY_CONSTANT_PENALTY
              ELSE IF opp_rack.null THEN 0
              ELSE 2 * RackEighths(opp_rack))

(* With the bag empty a play that empties the rack was recorded against   *)
(* an opponent's rack that holds tiles                                    *)
C10_Witness ==
  /\ phase = "generated"
  /\ bag.count = 0
  /\ ~opp_rack.null
  /\ \E build \in Builds : \E r \in Recorded(build) :
       /\ LeaveAfter(rack, r.move).total = 0
       /\ r.move.equity = r.move.score + 2 * RackEighths(opp_rack)
       /\ r.move.equity > r.move.score

(***************************************************************************)
(* Tiles put on the board one at a time or by a move, in any order and on  *)
(* any square of a corner of the board, with the full cross-set rebuild    *)
(* run at any time in between.                                             *)
(***************************************************************************)
(* No more than MaxLooseTiles squares are covered *)
MaxLooseTiles == 3

(* The squares used: column 13 and row 1 next to the top right corner *)
LooseSquares == { <<0, 13>>, <<1, 13>>, <<2, 13>>, <<1, 12>>, <<1, 14>> }

(* The tiles used: A, D and a blank standing for D *)
LooseTiles == { 1, 4, BLANKED(4) }

LooseMoves ==
  { MakeMove(DIR_HORIZONTAL, 1, 12, <<4, 1, 4>>),
    MakeMove(DIR_HORIZONTAL, 1, 12, <<5, PLAYED_THROUGH_MARKER, BLANKED(4)>>),
    MakeMove(DIR_VERTICAL, 0, 13, <<1, PLAYED_THROUGH_MARKER, 4>>),
    MakeMove(DIR_VERTICAL, 1, 13, <<5, 4>>) }

PlaceLooseTile ==
  /\ \E sq \in LooseSquares : \E tile \in LooseTiles :
       /\ board_is_empty(board, sq[1], sq[2])
       /\ board.tiles_played < MaxLooseTiles
       /\ board' = board_place_tile(board, sq[1], sq[2], tile)
  /\ phase' = "placed"
  /\ UNCHANGED <<rack, opp_rack, bag, klv, results, slot>>

ApplyLooseMove ==
  /\ \E move \in LooseMoves :
       /\ board_apply_move(board, move).tiles_played <= MaxLooseTiles
       /\ board' = board_apply_move(board, move)
  /\ phase' = "placed"
  /\ UNCHANGED <<rack, opp_rack, bag, klv, results, slot>>

UpdateCrossSets ==
  /\ phase = "placed"
  /\ board' = board_update_cross_sets(board, KWGNodes)
  /\ phase' = "computed"
  /\ UNCHANGED <<rack, opp_rack, bag, klv, results, slot>>

NextTiles == PlaceLooseTile \/ ApplyLooseMove \/ UpdateCrossSets

SpecTiles == Init /\ [][NextTiles]_vars

(***************************************************************************)
(* Cross-sets against the word list                                        *)
(***************************************************************************)
(* The number of tiles that stand in a row from (row, col), the square    *)
(* itself excluded, in steps of (dr, dc)                                   *)
TilesInLine(b, row, col, dr, dc) ==
  LET full(n) == \A k \in 1..n : Occupied(b, row + k * dr, col + k * dc)
  IN CHOOSE n \in 0..BOARD_DIM : full(n) /\ ~full(n + 1)

(* The letters of those tiles in reading order, a blanked tile read as *)
(* its letter                                                          *)
LettersBefore(b, row, col, dr, dc) ==
  LET n == TilesInLine(b, row, col, -dr, -dc)
  IN [k \in 1..n |-> UNBLANKED(b.h_letters[HIdx(row - (n + 1 - k) * dr, col - (n + 1 - k) * dc)])]

LettersAfter(b, row, col, dr, dc) ==
  LET n == TilesInLine(b, row, col, dr, dc)
  IN [k \in 1..n |-> UNBLANKED(b.h_letters[HIdx(row + k * dr, col + k * dc)])]

(* What the rules allow on an empty square whose neighbours in the line *)
(* (dr, dc) spell prefix and suffix, against the stored set and score   *)
CrossSetByRules(b, row, col, dr, dc, set, score) ==
  LET prefix == LettersBefore(b, row, col, dr, dc)
      suffix == LettersAfter(b, row, col, dr, dc)
  IN IF prefix = <<>> /\ suffix = <<>>
     THEN set = TRIVIAL_CROSS_SET /\ score = -1
     ELSE /\ set = {L \in 1..(ALPHABET_SIZE - 1) : prefix \o <<L>> \o suffix \in Words}
          /\ \A L \in 1..(ALPHABET_SIZE - 1) :
               (prefix \o <<L>> \o suffix \in Words)
                 <=> kwg_is_valid_word(KWGNodes, prefix \o <<L>> \o suffix)

(* C11: on a board whose cross-sets have been computed, every empty      *)
(* square with a tile next to it across the lane has as cross-set        *)
(* exactly the letters L for which prefix, L, suffix (blanked tiles read *)
(* as their letter) is a word of the lexicon; an empty square with no    *)
(* such neighbour has the all-letters set and the cross-score -1.  Both  *)
(* directions: h_cross_sets looks down the column, v_cross_sets along    *)
(* the row.                                                              *)
C11_CrossSetIsExact ==
  \A row \in Lanes : \A col \in Lanes :
    (phase # "placed" /\ board_is_empty(board, row, col)) =>
      /\ CrossSetByRules(board, row, col, 1, 0,
                         board.h_cross_sets[HIdx(row, col)],
                         board.h_cross_scores[HIdx(row, col)])
      /\ CrossSetByRules(board, row, col, 0, 1,
                         board.v_cross_sets[VIdx(row, col)],
                         board.v_cross_scores[VIdx(row, col)])

(* After a rebuild an empty square stands between two tiles of a column, *)
(* one of them a blanked tile, and a letter is allowed on it             *)
C11_Witness ==
  /\ phase = "computed"
  /\ \E row \in Lanes : \E col \in Lanes :
       /\ board_is_empty(board, row, col)
       /\ Occupied(board, row - 1, col)
       /\ Occupied(board, row + 1, col)
       /\ IS_BLANKED(board.h_letters[HIdx(row + 1, col)])
       /\ board.h_cross_sets[HIdx(row, col)] # {}
       /\ board.h_cross_sets[HIdx(row, col)] # TRIVIAL_CROSS_SET

(***************************************************************************)
(* The exchange generator against every part of the rack                   *)
(***************************************************************************)
(* The racks that are left when a non-empty part of rk goes to the bag, *)
(* as multisets: every count vector below the counts of rk but rk       *)
KeptRacks(rk) ==
  LET held == {ml \in 0..(ALPHABET_SIZE - 1) : rk.counts[ml] > 0}
      most == SetMax({rk.counts[ml] : ml \in held})
      keeps == {f \in [held -> 0..most] : \A ml \in held : f[ml] <= rk.counts[ml]}
      total(f) == SeqSum([i \in 1..ALPHABET_SIZE |-> IF (i - 1) \in held THEN f[i - 1] ELSE 0])
  IN { [counts |-> [ml \in 0..(ALPHABET_SIZE - 1) |-> IF ml \in held THEN f[ml] ELSE 0],
        total |-> total(f)] : f \in {g \in keeps : total(g) < rk.total} }

(* The value of a leave, the empty leave counting as 0 *)
LeaveValueOf(k, leave) == IF leave.total = 0 THEN 0 ELSE klv_get_leave_value(k, leave)

(* C12: when the bag holds at least RACK_SIZE tiles and a leave evaluator *)
(* is present, the exchange the exchange generator chooses gives a        *)
(* non-empty part of the rack to the bag, and the leave value of the      *)
(* tiles it keeps is the value the generator reports and is maximal over  *)
(* the leaves of all non-empty parts of the rack that could be exchanged. *)
C12_BestExchangeKeepsBestLeave ==
  (phase = "generated" /\ ExchangeAvailable /\ rack.total > 0) =>
    \A build \in Builds :
      LET ex == results[build].best_exchange
          kept == RemoveTilesFrom(rack, ex, 0)
      IN /\ ex.move_type = GAME_EVENT_EXCHANGE
         /\ ex.tiles_played >= 1
         /\ ex.tiles_length = ex.tiles_played
         /\ Len(ex.tiles) = ex.tiles_played
         /\ kept.ok
         /\ kept.rack \in KeptRacks(rack)
         /\ LeaveValueOf(klv, kept.rack) = results[build].best_exchange_equity
         /\ \A other \in KeptRacks(rack) :
              LeaveValueOf(klv, other) <= LeaveValueOf(klv, kept.rack)

(* A full rack whose best exchange gives more than one tile to the bag,  *)
(* keeps a leave of positive value, and has leaves worth less than that, *)
(* one of them the leave of the first exchange tried                     *)
C12_Witness ==
  /\ phase = "generated"
  /\ ExchangeAvailable
  /\ rack.total = RACK_SIZE
  /\ Cardinality(KeptRacks(rack)) > RACK_SIZE
  /\ \E build \in Builds :
       LET ex == results[build].best_exchange
           kept == RemoveTilesFrom(rack, ex, 0).rack
       IN /\ ex.tiles_played > 1
          /\ kept.total > 0
          /\ LeaveValueOf(klv, kept) > 0
          /\ \E other \in KeptRacks(rack) : LeaveValueOf(klv, other) < 0

(* C13: an exchange that generate_moves returns has score 0 and an equity *)
(* field equal to the leave value of the tiles it keeps, which is the     *)
(* value that was compared against the best play.                         *)
C13_ExchangeEquityIsLeaveValue ==
  \A build \in Builds :
    ReturnedExchange(build) =>
      LET kept == RemoveTilesFrom(rack, results[build].moves, 0).rack
      IN /\ results[build].moves.score = 0
         /\ results[build].best_exchange_equity = LeaveValueOf(klv, kept)
         /\ results[build].moves.equity = LeaveValueOf(klv, kept)

(***************************************************************************)
(* The opening move                                                        *)
(***************************************************************************)
(* The centre square *)
CentreRow == BOARD_DIM \div 2

CentreCol == BOARD_DIM \div 2

(* The strip of the placement m covers the centre square *)
CoversCentre(m) ==
  \E i \in 1..m.tiles_length : MoveRow(m, i) = CentreRow /\ MoveCol(m, i) = CentreCol

(* C14: on a board with no tiles the only anchor of the horizontal scan   *)
(* is the centre square and the vertical direction is not scanned: the    *)
(* heap of the builds with the shadow pass holds that one anchor, and     *)
(* every play that any build records is horizontal, lies on the centre    *)
(* row and covers the centre square.                                      *)
C14_OpeningPlaysCoverCentre ==
  (phase = "generated" /\ board.tiles_played = 0) =>
    /\ \A row \in Lanes : \A col \in Lanes :
         is_anchor(cache_row(gen_init(board, rack, opp_rack, KWGNodes, klv, bag),
                             row, DIR_HORIZONTAL), col)
           <=> (row = CentreRow /\ col = CentreCol)
    /\ \A build \in Builds \ {"noshadow"} :
         /\ Len(results[build].anchors) = 1
         /\ results[build].anchors[1].row = CentreRow
         /\ results[build].anchors[1].col = CentreCol
         /\ results[build].anchors[1].dir = DIR_HORIZONTAL
    /\ \A build \in Builds : \A r \in Recorded(build) :
         /\ r.move.dir = DIR_HORIZONTAL
         /\ r.move.row_start = CentreRow
         /\ r.move.tiles_played = r.move.tiles_length
         /\ CoversCentre(r.move)

(* On the empty board every build recorded a play that starts on the *)
(* centre square and a play that starts to the left of it            *)
C14_Witness ==
  /\ phase = "generated"
  /\ board.tiles_played = 0
  /\ \A build \in Builds :
       /\ \E r \in Recorded(build) : r.move.col_start = CentreCol
       /\ \E r \in Recorded(build) : r.move.col_start < CentreCol

(***************************************************************************)
(* The leave evaluator on its own: klv_init on a leave file, then          *)
(* klv_get_word_index and klv_get_leave_value on any rack of up to         *)
(* MaxQueryTiles tiles.                                                    *)
(***************************************************************************)
(* A leave file whose DAWG shares the node of E between A and D: the *)
(* racks A, AE, D, DE                                                *)
SharedNodes == << 4194306, 4194304, 25165828, 79691780, 96468992 >>

SharedLeaves == << 3, -4, 9, 2 >>

(* A leave file with the racks AD and E, where the rack A is no word *)
OpenNodes == << 4194306, 4194304, 16777220, 96468992, 79691776 >>

OpenLeaves == << 5, 7 >>

LeaveFiles ==
  { klv_data, klv_init(SharedNodes, SharedLeaves), klv_init(OpenNodes, OpenLeaves) }

(* No more than MaxQueryTiles tiles are on a rack that is looked up *)
MaxQueryTiles == 3

(* The tiles of the racks looked up: ?, A, D, E, S, X, Z *)
QueryTiles == {0, 1, 4, 5, 19, 24, 26}

(* The table entries klv_get_indexed_leave reads for an index *)
IndexedLeaveReads(k, index) == IF index = KLV_UNFOUND_INDEX THEN {} ELSE {index}

(* The table entries klv_get_leave_value reads for a rack *)
LeaveValueReads(k, rk) ==
  IF rk.total = 0 THEN {} ELSE IndexedLeaveReads(k, klv_get_word_index(k, rk))

NoLookup == [index |-> KLV_UNFOUND_INDEX, value |-> 0, reads |-> {}]

InitLeave ==
  /\ board = board_init
  /\ rack = rack_init
  /\ opp_rack = NULL_RACK
  /\ bag = BagOf(0)
  /\ klv \in LeaveFiles
  /\ results = NoResults
  /\ phase = "loaded"
  /\ slot = NoLookup

(* A rack is built tile by tile *)
AddTile ==
  /\ rack.total < MaxQueryTiles
  /\ \E tile \in QueryTiles : rack' = rack_add_tile(rack, tile)
  /\ phase' = "loaded"
  /\ slot' = NoLookup
  /\ UNCHANGED <<board, opp_rack, bag, klv, results>>

(* klv_get_word_index and klv_get_leave_value on the rack *)
GetLeaveValue ==
  /\ phase = "loaded"
  /\ slot' = [index |-> klv_get_word_index(klv, rack),
              value |-> klv_get_leave_value(klv, rack),
              reads |-> LeaveValueReads(klv, rack)]
  /\ phase' = "looked up"
  /\ UNCHANGED <<board, rack, opp_rack, bag, klv, results>>

NextLeave == AddTile \/ GetLeaveValue

SpecLeave == InitLeave /\ [][NextLeave]_vars

(* C15: klv_get_leave_value returns 0 for the empty rack and for every  *)
(* rack for which klv_get_word_index returns KLV_UNFOUND_INDEX, and in  *)
(* neither case reads the leave table: no entry is read, and the result *)
(* is the same when the table is taken away.                            *)
C15_NoLeaveForEmptyOrUnfound ==
  (phase = "looked up" /\ (rack.total = 0 \/ slot.index = KLV_UNFOUND_INDEX)) =>
    /\ slot.value = 0
    /\ slot.reads = {}
    /\ klv_get_leave_value([klv EXCEPT !.leaves = <<>>], rack) = 0

(* A rack that holds tiles was looked up in a leave file that has leaves *)
(* and was not found                                                     *)
C15_Witness ==
  /\ phase = "looked up"
  /\ rack.total > 0
  /\ klv.num_leaves > 0
  /\ slot.index = KLV_UNFOUND_INDEX
  /\ slot.value = 0

(* The words of the sibling list at node_index, each after prefix, in the *)
(* depth-first enumeration in sibling order: the word that ends on a node *)
(* before the words that go on from it, then the later siblings           *)
RECURSIVE DawgWordsFrom(_, _, _)
DawgWordsFrom(nodes, node_index, prefix) ==
  LET node == nodes[node_index + 1]
      word == Append(prefix, KWG_TILE(node))
  IN (IF KWG_ACCEPTS(node) THEN <<word>> ELSE <<>>)
     \o (IF KWG_ARC_INDEX(node) # 0 THEN DawgWordsFrom(nodes, KWG_ARC_INDEX(node), word)
         ELSE <<>>)
     \o (IF ~KWG_IS_END(node) THEN DawgWordsFrom(nodes, node_index + 1, prefix) ELSE <<>>)

DawgWords(k) == DawgWordsFrom(k.kwg, klv_get_dawg_root(k), <<>>)

(* The word counts are the numbers of words that start in each sibling list *)
WordCountsCorrect(k) ==
  \A i \in 2..(k.kwg_size - 1) : k.word_counts[i] = Len(DawgWordsFrom(k.kwg, i, <<>>))

(* The rack is a word of the DAWG *)
IsDawgWord(k, rk) == \E i \in 1..Len(DawgWords(k)) : DawgWords(k)[i] = RackTiles(rk)

(* The 0-based position of the rack in the enumeration *)
RankOf(k, rk) == (CHOOSE i \in 1..Len(DawgWords(k)) : DawgWords(k)[i] = RackTiles(rk)) - 1

(* C16: for a leave DAWG with correct word counts and a rack whose        *)
(* ascending tile sequence is a word of the DAWG, klv_get_word_index      *)
(* returns the 0-based position of the word in the depth-first            *)
(* enumeration of the DAWG in sibling order (so distinct racks get        *)
(* distinct indices below the word count, in the order of the racks).     *)
C16_WordIndexIsRank ==
  (phase = "looked up" /\ WordCountsCorrect(klv) /\ IsDawgWord(klv, rack)) =>
    /\ slot.index = RankOf(klv, rack)
    /\ slot.index < klv.num_leaves

(***************************************************************************)
(* The two views of the board                                              *)
(***************************************************************************)
(* C17: after board_init and any sequence of board_place_tile and       *)
(* board_apply_move calls the row-major and the column-major view hold  *)
(* the same tile for every square: h_letters[r*15+c] = v_letters[c*15+r]. *)
C17_ViewsAgree ==
  \A r \in Lanes : \A c \in Lanes :
    board.h_letters[r * BOARD_DIM + c] = board.v_letters[c * BOARD_DIM + r]

(* MaxLooseTiles tiles stand on the board, a blanked tile among them, *)
(* one on a square off the diagonal whose mirror square is empty      *)
C17_Witness ==
  /\ board.tiles_played = MaxLooseTiles
  /\ board.h_letters[0 * BOARD_DIM + 13] # ALPHABET_EMPTY_SQUARE_MARKER
  /\ board.h_letters[13 * BOARD_DIM + 0] = ALPHABET_EMPTY_SQUARE_MARKER
  /\ board.v_letters[13 * BOARD_DIM + 0] # ALPHABET_EMPTY_SQUARE_MARKER
  /\ \E c \in Lanes : IS_BLANKED(board.v_letters[c * BOARD_DIM + 1])

(***************************************************************************)
(* What the search leaves behind                                           *)
(***************************************************************************)
(* C18: generate_moves leaves the board and the rack of its caller as     *)
(* they were, and whenever gen_for_anchor returns, the working rack       *)
(* (counts and total), tiles_played, the main-word score, the cross score *)
(* and the word multiplier are what they were when recursive_gen was      *)
(* entered; so the rack with which every anchor is entered is the rack of *)
(* the caller.                                                            *)
C18_WorkingStateRestored ==
  phase = "generated" =>
    \A build \in Builds :
      /\ results[build].board = board
      /\ \A i \in 1..Len(results[build].generated) :
           /\ results[build].generated[i].exit = results[build].generated[i].entry
           /\ results[build].generated[i].entry.rack = rack

(* The row scan has gone through several anchors one after the other with *)
(* a rack that holds a blank, and has recorded a play of two tiles or more *)
C18_Witness ==
  /\ phase = "generated"
  /\ rack.counts[BLANK_MACHINE_LETTER] > 0
  /\ Len(results["noshadow"].generated) >= 2
  /\ \E i \in 1..Len(results["noshadow"].recorded) :
       /\ results["noshadow"].recorded[i].move.tiles_played >= 2
       /\ results["noshadow"].recorded[i].anchor_col
            = results["noshadow"].generated[1].anchor_col

(***************************************************************************)
(* The cutoff of the heap loop                                             *)
(***************************************************************************)
(* The anchors the build with the cutoff left in the heap: those the build *)
(* without the cutoff went on to generate                                  *)
SkippedAnchors ==
  { results["debug"].processed[i] :
      i \in (Len(results["shadow"].processed) + 1)..Len(results["debug"].processed) }

(* The heap loop ends early only at an anchor taken while a best move     *)
(* exists whose equity is strictly above the bound of that anchor; an     *)
(* anchor taken with a bound equal to or above the best equity, or with   *)
(* no best move yet, is generated.                                        *)
CutoffOnlyBelowBest ==
  /\ Len(results["shadow"].processed) <= Len(results["debug"].processed)
  /\ SubSeq(results["debug"].processed, 1, Len(results["shadow"].processed))
       = results["shadow"].processed
  /\ \A i \in 1..Len(results["shadow"].extracted) :
       /\ results["shadow"].extracted[i].cut =>
            /\ i = Len(results["shadow"].extracted)
            /\ results["shadow"].extracted[i].best_equity > EQUITY_INITIAL_VALUE
            /\ results["shadow"].extracted[i].best_equity
                 > results["shadow"].extracted[i].anchor.highest_possible_equity
       /\ ~results["shadow"].extracted[i].cut =>
            results["shadow"].extracted[i].anchor
              = results["shadow"].processed[i]
  /\ SkippedAnchors # {} =>
       results["shadow"].extracted[Len(results["shadow"].extracted)].cut

(* The play r of the log wins against the best move of the build with the *)
(* cutoff on the tie-break, with the same equity                          *)
TiesAndWins(r) ==
  /\ r.move.equity = results["shadow"].best_equity
  /\ is_better_move(r.move.equity, r.move.score, r.move.row_start, r.move.col_start,
                    r.move.dir, r.move.tiles_played, r.move.tiles_length, r.move.tiles,
                    results["shadow"].best_equity, results["shadow"].best_move)

(* C19: with the shadow pass and the cutoff, generate_moves drops the     *)
(* rest of the heap only when a best move exists and its equity is        *)
(* strictly greater than the bound of the anchor just taken from the      *)
(* heap, an anchor whose bound equals the best equity is still generated, *)
(* and no play of a dropped anchor ties the best move on equity and wins  *)
(* the tie-break against it.                                              *)
C19_TieBreakWinnerNotSkipped ==
  phase = "generated" =>
    /\ CutoffOnlyBelowBest
    /\ \A a \in SkippedAnchors : \A r \in Recorded("debug") :
         RecordedFor(r, a) => ~TiesAndWins(r)

(***************************************************************************)
(* The anchor heap on its own: anchors go in and the best one comes out,   *)
(* in any order of the two operations                                      *)
(***************************************************************************)
(* No more than MaxHeapAnchors anchors are in the heap at a time *)
MaxHeapAnchors == 4

HeapBounds == { 8, 16 }

HeapScanOrders == { 3, 100, 230 }

(* The anchors put into the heap: one for each bound and scan order *)
HeapAnchors ==
  { [row |-> IF o < BOARD_SIZE THEN o \div BOARD_DIM ELSE (o - BOARD_SIZE) \div BOARD_DIM,
     col |-> o % BOARD_DIM,
     dir |-> IF o < BOARD_SIZE THEN DIR_HORIZONTAL ELSE DIR_VERTICAL,
     last_anchor_col |-> BOARD_DIM,
     highest_possible_equity |-> e, highest_possible_score |-> e,
     scan_order |-> o] : e \in HeapBounds, o \in HeapScanOrders }

(* The anchors in the heap *)
HeapContents(heap) == { heap.anchors[i] : i \in 1..heap.count }

InitHeap ==
  /\ board = board_init
  /\ rack = rack_init
  /\ opp_rack = NULL_RACK
  /\ bag = BagOf(0)
  /\ klv = NULL_KLV
  /\ results = NoResults
  /\ phase = "inserted"
  /\ slot = [heap |-> anchor_heap_init, before |-> {}, out |-> {}]

(* anchor_heap_insert of an anchor that is not in the heap *)
HeapInsert ==
  /\ slot.heap.count < MaxHeapAnchors
  /\ \E a \in HeapAnchors \ HeapContents(slot.heap) :
       slot' = [heap |-> anchor_heap_insert(slot.heap, a),
                before |-> HeapContents(slot.heap), out |-> {}]
  /\ phase' = "inserted"
  /\ UNCHANGED <<board, rack, opp_rack, bag, klv, results>>

(* anchor_heap_extract_max on a heap that is not empty; slot.before is    *)
(* what the heap held and slot.out what came out                          *)
HeapExtract ==
  /\ ~anchor_heap_is_empty(slot.heap)
  /\ slot' = [heap |-> anchor_heap_extract_max(slot.heap).heap,
              before |-> HeapContents(slot.heap),
              out |-> {anchor_heap_extract_max(slot.heap).out}]
  /\ phase' = "extracted"
  /\ UNCHANGED <<board, rack, opp_rack, bag, klv, results>>

NextHeap == HeapInsert \/ HeapExtract

SpecHeap == InitHeap /\ [][NextHeap]_vars

(* After any sequence of the two operations anchor_heap_extract_max takes *)
(* out an anchor of the heap that comes before every other one in         *)
(* anchor_compare: the highest bound, and among equal bounds the lowest   *)
(* scan order; the other anchors stay.                                    *)
HeapExtractsMax ==
  phase = "extracted" =>
    /\ slot.out \subseteq slot.before
    /\ HeapContents(slot.heap) = slot.before \ slot.out
    /\ \A a \in slot.out : \A b \in slot.before \ slot.out :
         /\ a.highest_possible_equity >= b.highest_possible_equity
         /\ a.highest_possible_equity = b.highest_possible_equity =>
              a.scan_order < b.scan_order

(***************************************************************************)
(* The order in which the anchors are generated                            *)
(***************************************************************************)
(* The place of an anchor in the scan of the build without the shadow     *)
(* pass: the rows from the top, each from the left, then the columns from *)
(* the left, each from the top                                            *)
ScanPosition(a) ==
  IF a.dir = DIR_HORIZONTAL THEN a.row * BOARD_DIM + a.col
  ELSE BOARD_SIZE + a.col * BOARD_DIM + a.row

(* C20: generate_moves takes the anchors from the heap by non-increasing  *)
(* bound, anchors of equal bound by increasing scan_order, and so anchors *)
(* of equal bound in the order in which the scan without the shadow pass  *)
(* comes to them.                                                         *)
C20_AnchorsInScanOrder ==
  phase = "generated" =>
    \A i \in 1..Len(results["debug"].processed) :
      \A j \in (i + 1)..Len(results["debug"].processed) :
        /\ results["debug"].processed[i].highest_possible_equity
             >= results["debug"].processed[j].highest_possible_equity
        /\ results["debug"].processed[i].highest_possible_equity
             = results["debug"].processed[j].highest_possible_equity =>
             /\ results["debug"].processed[i].scan_order
                  < results["debug"].processed[j].scan_order
             /\ ScanPosition(results["debug"].processed[i])
                  < ScanPosition(results["debug"].processed[j])

(***************************************************************************)
(* The leave map during generation                                         *)
(***************************************************************************)
(* The leave value record_move read for the log entry r, and the leave    *)
(* value of the tiles that were on the working rack at that time          *)
LeaveRead(r) == leave_map_init(klv, rack).leave_values[r.current_index]

(* C21: whenever record_move reads the leave map (tiles in the bag, a     *)
(* leave evaluator given), leave_map_get_current is klv_get_leave_value   *)
(* of the working rack, the tiles not yet played.                         *)
C21_LeaveMapReadsWorkingRack ==
  (phase = "generated" /\ bag.count > 0 /\ ~klv.null) =>
    \A build \in Builds : \A r \in Recorded(build) :
      LeaveRead(r) = klv_get_leave_value(klv, r.rack)

(* C22: leave_map_take_letter followed by leave_map_add_letter with the   *)
(* same letter and count gives current_index its previous value, so when  *)
(* recursive_gen returns, with every take paired with its put-back, the   *)
(* index is the one with which it was entered.                            *)
C22_IndexStableAcrossTakeAndRestore ==
  (phase = "generated" /\ ~klv.null) =>
    \A build \in Builds : \A i \in 1..Len(results[build].generated) :
      results[build].generated[i].index_exit = results[build].generated[i].index_entry

OffBoardOrEmpty(b, row, col) ==
  \/ row < 0 \/ row >= BOARD_DIM \/ col < 0 \/ col >= BOARD_DIM
  \/ board_is_empty(b, row, col)

EndsFree(b, m) ==
  /\ OffBoardOrEmpty(b, MoveRow(m, 0), MoveCol(m, 0))
  /\ OffBoardOrEmpty(b, MoveRow(m, m.tiles_length + 1), MoveCol(m, m.tiles_length + 1))

OnBoard(row, col) == row >= 0 /\ row < BOARD_DIM /\ col >= 0 /\ col < BOARD_DIM

SetsCleared(b, row, col) ==
  /\ b.h_cross_sets[HIdx(row, col)] = {}
  /\ b.h_leftx[HIdx(row, col)] = {}
  /\ b.h_rightx[HIdx(row, col)] = {}
  /\ b.v_cross_sets[VIdx(row, col)] = {}
  /\ b.v_leftx[VIdx(row, col)] = {}
  /\ b.v_rightx[VIdx(row, col)] = {}

OccupiedSquaresCleared(b) ==
  \A row \in Lanes : \A col \in Lanes :
    ~board_is_empty(b, row, col) => SetsCleared(b, row, col)

(* C25: after any sequence of applied moves, each followed by the         *)
(* incremental update or by the full rebuild of the cross-sets, every     *)
(* square that holds a tile has both cross-sets and all four extension    *)
(* sets empty.                                                            *)
C25_OccupiedSquaresHaveNoSets ==
  /\ OccupiedSquaresCleared(board)
  /\ OccupiedSquaresCleared(board_update_cross_sets(board, KWGNodes))

(* A board of at least two plays on which a tile has a neighbour in its   *)
(* row and a neighbour in its column                                      *)
C25_Witness ==
  /\ board.tiles_played >= 3
  /\ \E row \in Lanes : \E col \in Lanes :
       /\ ~board_is_empty(board, row, col)
       /\ ~board_is_empty(board, row - 1, col) \/ ~board_is_empty(board, row + 1, col)
       /\ ~board_is_empty(board, row, col - 1) \/ ~board_is_empty(board, row, col + 1)

(***************************************************************************)
(* The word counts of leave DAWGs in every order of their nodes            *)
(***************************************************************************)
(* The longest word of the DAWGs counted *)
MaxChainTiles == RACK_SIZE

RECURSIVE Orders(_)
Orders(S) ==
  IF S = {} THEN {<<>>}
  ELSE UNION { { <<x>> \o rest : rest \in Orders(S \ {x}) } : x \in S }

(* The DAWG of one word of Len(at) tiles, the tiles 1, 2, ... in this     *)
(* order, with the node of tile l at index at[l]; node 0 points at the    *)
(* first tile, node 1 is the empty root of the other half of the file.    *)
(* With prefixes, every prefix of the word is a word as well.             *)
ChainNodes(at, prefixes) ==
  [i \in 1..(Len(at) + 2) |->
     IF i = 1 THEN 4194304 + at[1]
     ELSE IF i = 2 THEN 4194304
     ELSE LET l == CHOOSE l \in 1..Len(at) : at[l] = i - 1
          IN l * 16777216 + 4194304
             + (IF prefixes \/ l = Len(at) THEN 8388608 ELSE 0)
             + (IF l < Len(at) THEN at[l + 1] ELSE 0)]

ChainFiles ==
  UNION { { ChainNodes(at, prefixes) : at \in Orders(2..(d + 1)), prefixes \in BOOLEAN } :
          d \in 1..MaxChainTiles }

CountFiles == ChainFiles \cup {KLVNodes, SharedNodes, OpenNodes}

Uncounted(nodes) ==
  [null |-> FALSE, kwg_size |-> Len(nodes), num_leaves |-> 0, kwg |-> nodes,
   leaves |-> <<>>, word_counts |-> [i \in 0..(Len(nodes) - 1) |-> 0]]

InitCounts ==
  /\ board = board_init
  /\ rack = rack_init
  /\ opp_rack = NULL_RACK
  /\ bag = BagOf(0)
  /\ klv \in { Uncounted(nodes) : nodes \in CountFiles }
  /\ results = NoResults
  /\ phase = "loaded"
  /\ slot = [passes |-> 0]

(* compute_word_counts on the nodes of the file *)
ComputeWordCounts ==
  /\ phase = "loaded"
  /\ klv' = [klv EXCEPT !.word_counts = compute_word_counts(klv.kwg).word_counts]
  /\ slot' = [passes |-> compute_word_counts(klv.kwg).passes]
  /\ phase' = "counted"
  /\ UNCHANGED <<board, rack, opp_rack, bag, results>>

NextCounts == ComputeWordCounts

SpecCounts == InitCounts /\ [][NextCounts]_vars

(* The length of the longest word below the sibling list at node_index *)
RECURSIVE LongestFrom(_, _)
LongestFrom(nodes, node_index) ==
  LET node == nodes[node_index + 1]
      below == IF KWG_ARC_INDEX(node) # 0 THEN 1 + LongestFrom(nodes, KWG_ARC_INDEX(node))
               ELSE 1
      beside == IF ~KWG_IS_END(node) THEN LongestFrom(nodes, node_index + 1) ELSE 0
  IN IF below > beside THEN below ELSE beside

(* Every count is 1 if the node accepts, plus the count at its arc        *)
(* target, plus the count of its next sibling                             *)
CountsSettled(k) ==
  \A i \in 0..(k.kwg_size - 1) :
    LET node == k.kwg[i + 1]
    IN k.word_counts[i] =
         (IF KWG_ACCEPTS(node) THEN 1 ELSE 0)
         + (IF KWG_ARC_INDEX(node) # 0 THEN k.word_counts[KWG_ARC_INDEX(node)] ELSE 0)
         + (IF ~KWG_IS_END(node) THEN k.word_counts[i + 1] ELSE 0)

Segments ==
  { MakeMove(DIR_HORIZONTAL, 7, 1, <<5, 5, 5, 5, 5, 5, 5>>),
    MakeMove(DIR_HORIZONTAL, 7, 9, <<5, 5, 5, 5, 5, 5>>) }
  \cup { MakeMove(DIR_HORIZONTAL, row, col, <<5, 5, 5, 5, 5, 5, 5>>) :
          row \in {1, 4, 10}, col \in {0, 8} }

(* The racks of the player to move *)
ShadowRacks == { RackOf(<<5>>) }

NoAnchors == [calls |-> 0, failed |-> 0, count |-> 0]

InitAnchors ==
  /\ board = board_update_cross_sets(board_init, KWGNodes)
  /\ rack = rack_init
  /\ opp_rack = NULL_RACK
  /\ bag = BagOf(RACK_SIZE)
  /\ klv = NULL_KLV
  /\ results = NoResults
  /\ phase = "laid"
  /\ slot = NoAnchors

LaySegment ==
  /\ \E move \in Segments :
       /\ board_is_empty(board, move.row_start, move.col_start)
       /\ board' = PlaceAndUpdate(board, move)
  /\ rack' = rack_init
  /\ phase' = "laid"
  /\ slot' = NoAnchors
  /\ UNCHANGED <<opp_rack, bag, klv, results>>

(* gen_shadow as generate_moves calls it *)
ShadowAnchors ==
  /\ phase = "laid"
  /\ \E r \in ShadowRacks :
       LET gen == gen_shadow(gen_init(board, r, opp_rack, KWGNodes, klv, bag))
       IN /\ rack' = r
          /\ slot' = [calls |-> gen.inserts.calls, failed |-> gen.inserts.failed,
                      count |-> gen.anchor_heap.count]
  /\ phase' = "shadowed"
  /\ UNCHANGED <<board, opp_rack, bag, klv, results>>

NextAnchors == LaySegment \/ ShadowAnchors

SpecAnchors == InitAnchors /\ [][NextAnchors]_vars

TILE_COUNTS ==
  <<2, 9, 2, 2, 4, 12, 2, 3, 2, 9, 1, 1, 4, 2, 6, 8, 2, 1, 6, 4, 6, 4, 2, 2, 1, 2, 1>>

(* Exclusive or of two numbers of n bits *)
RECURSIVE BitXor(_, _, _)
BitXor(a, b, n) ==
  IF n = 0 THEN 0
  ELSE (((a % 2) + (b % 2)) % 2) + 2 * BitXor(a \div 2, b \div 2, n - 1)

(* rng_next: the 16-bit xorshift; the new state is the value returned *)
rng_next(state) ==
  LET a == BitXor(state, (state * 128) % 65536, 16)
      b == BitXor(a, a \div 512, 16)
  IN BitXor(b, (b * 256) % 65536, 16)

(* rng_seed: the state after seeding. The state is the low 16 bits of     *)
(* (seed * 2654435761 + 1) | 1, which depend on the low 16 bits of the    *)
(* factors only: 2654435761 % 65536 = 31153.                              *)
rng_seed(seed) ==
  LET mixed == ((seed % 65536) * 31153 + 1) % 65536
  IN IF mixed % 2 = 1 THEN mixed ELSE mixed + 1

(* rng_range: [0, n) from the 16-bit value by multiply-high *)
rng_range(value, n) == (value * n) \div 65536

RECURSIVE BagInitFrom(_)
BagInitFrom(letter) ==
  IF letter >= ALPHABET_SIZE THEN <<>>
  ELSE [j \in 1..TILE_COUNTS[letter + 1] |-> letter] \o BagInitFrom(letter + 1)

bag_init == BagInitFrom(0)

(* One round of the loop of bag_shuffle, for the index i of the C array *)
ShuffleStep(st, i) ==
  LET next == rng_next(st.rng_state)
      j == rng_range(next, i + 1)
  IN [tiles |-> [st.tiles EXCEPT ![i + 1] = st.tiles[j + 1], ![j + 1] = st.tiles[i + 1]],
      rng_state |-> next]

(* The rounds for the indices hi down to lo, the range halved to keep the *)
(* evaluation shallow                                                     *)
RECURSIVE ShuffleRange(_, _, _)
ShuffleRange(st, lo, hi) ==
  IF lo > hi THEN st
  ELSE IF lo = hi THEN ShuffleStep(st, lo)
  ELSE LET mid == (lo + hi) \div 2
           first == ShuffleRange(st, mid + 1, hi)
       IN IF Ready(first) THEN ShuffleRange(first, lo, mid) ELSE first

bag_shuffle(tiles, state) ==
  ShuffleRange([tiles |-> tiles, rng_state |-> state], 1, Len(tiles) - 1)

(* bag_refill_rack: draws from the end of the bag until the rack is full *)
RECURSIVE bag_refill_rack(_, _)
bag_refill_rack(tiles, rk) ==
  IF rk.total < RACK_SIZE /\ Len(tiles) > 0
  THEN bag_refill_rack(SubSeq(tiles, 1, Len(tiles) - 1), rack_add_tile(rk, tiles[Len(tiles)]))
  ELSE [tiles |-> tiles, rack |-> rk]

ReturnNothing(tiles, state, returned) == bag_shuffle(tiles, state)

(* bag_return_tiles: the tiles go on the end of the bag, then the shuffle *)
bag_return_tiles(tiles, state, returned) == bag_shuffle(tiles \o returned, state)

(* The value of the tiles of a rack in points *)
RackValue(rk) ==
  SumOver([letter \in 0..(ALPHABET_SIZE - 1) |-> rk.counts[letter] * TILE_SCORES[letter + 1]],
          0, ALPHABET_SIZE - 1)

game_init(state) ==
  LET shuffled == bag_shuffle(bag_init, state)
      first == bag_refill_rack(shuffled.tiles, rack_init)
      second == bag_refill_rack(first.tiles, rack_init)
  IN [players |-> (0 :> [rack |-> first.rack, score |-> 0]
                   @@ 1 :> [rack |-> second.rack, score |-> 0]),
      tiles |-> second.tiles, rng_state |-> shuffled.rng_state,
      current_player |-> 0, passes |-> 0, game_over |-> 0]

(* game_play_move on the game g and the board b: ret is the value returned *)
game_play_move_in(g, b, move) ==
  LET p == g.current_player
      removed == RemoveTilesFrom(g.players[p].rack, move, 0)
      refilled == bag_refill_rack(g.tiles, removed.rack)
      out == refilled.rack.total = 0 /\ Len(refilled.tiles) = 0
      bonus == IF out THEN RackValue(g.players[1 - p].rack) * 2 ELSE 0
  IN IF g.game_over # 0 THEN [ret |-> 0, game |-> g, board |-> b]
     ELSE IF ~removed.ok
     THEN [ret |-> 0, game |-> [g EXCEPT !.players[p].rack = removed.rack], board |-> b]
     ELSE [ret |-> 1,
           game |-> [g EXCEPT !.players[p].rack = refilled.rack,
                              !.players[p].score = @ + move.score + bonus,
                              !.tiles = refilled.tiles,
                              !.passes = 0,
                              !.current_player = 1 - p,
                              !.game_over = IF out THEN 1 ELSE @],
           board |-> board_apply_move(b, move)]

game_pass(g) ==
  IF g.game_over # 0 THEN g
  ELSE LET passes == (g.passes + 1) % 256
       IN [g EXCEPT !.passes = passes,
                    !.current_player = 1 - @,
                    !.game_over = IF passes >= 6 THEN 1 ELSE @,
                    !.players = IF passes >= 6
                                THEN [q \in {0, 1} |->
                                        [@[q] EXCEPT !.score = @ - RackValue(g.players[q].rack)]]
                                ELSE @]

(* rack_add_tile for each tile of a sequence *)
RECURSIVE RackPlus(_, _)
RackPlus(rk, tiles) ==
  IF tiles = <<>> THEN rk ELSE RackPlus(rack_add_tile(rk, Head(tiles)), Tail(tiles))

(* The loop of game_exchange that takes the tiles from the rack, with the *)
(* tiles taken so far put back when one is missing                        *)
RECURSIVE ExchangeTilesFrom(_, _, _)
ExchangeTilesFrom(rk, tiles, i) ==
  IF i >= Len(tiles) THEN [ok |-> TRUE, rack |-> rk]
  ELSE LET removed == rack_remove_tile(rk, tiles[i + 1])
       IN IF ~removed.ok
          THEN [ok |-> FALSE,
                rack |-> RackPlus(rk, SubSeq(tiles, 1, i))]
          ELSE ExchangeTilesFrom(removed.rack, tiles, i + 1)

game_exchange(g, tiles) ==
  LET p == g.current_player
      removed == ExchangeTilesFrom(g.players[p].rack, tiles, 0)
      refilled == bag_refill_rack(g.tiles, removed.rack)
      returned == bag_return_tiles(refilled.tiles, g.rng_state, tiles)
  IN IF g.game_over # 0 \/ Len(g.tiles) < RACK_SIZE THEN [ret |-> 0, game |-> g]
     ELSE IF ~removed.ok
     THEN [ret |-> 0, game |-> [g EXCEPT !.players[p].rack = removed.rack]]
     ELSE [ret |-> 1,
           game |-> [g EXCEPT !.players[p].rack = refilled.rack,
                              !.tiles = returned.tiles,
                              !.rng_state = returned.rng_state,
                              !.passes = (@ + 1) % 256,
                              !.current_player = 1 - p]]

(***************************************************************************)
(* Games: game_init with the generator seeded as main does or left as it   *)
(* is, then calls of game_play_move, game_exchange and game_pass.          *)
(***************************************************************************)
(* The states of the generator at game_init: unseeded, and rng_seed(0) *)
GameSeeds == { 12345, rng_seed(0) }

(* The calls other than game_pass and the play of the whole rack are made *)
(* at most MaxOtherCalls times in a game                                  *)
MaxOtherCalls == 1

(* The tiles that the calls ask for whether they are on the rack or not: Q *)
AskedTiles == {17}

GameOf(sl, bg) ==
  [players |-> sl.players, tiles |-> bg.tiles, rng_state |-> sl.rng_state,
   current_player |-> sl.current_player, passes |-> sl.passes, game_over |-> sl.game_over]

SlotOf(g, op, ret, others, failed) ==
  [players |-> g.players, rng_state |-> g.rng_state, current_player |-> g.current_player,
   passes |-> g.passes, game_over |-> g.game_over,
   op |-> op, ret |-> ret, others |-> others, failed |-> failed]

BagWith(tiles) == [null |-> FALSE, count |-> Len(tiles), tiles |-> tiles]

InitGame ==
  /\ board = board_init
  /\ rack = rack_init
  /\ opp_rack = NULL_RACK
  /\ klv = NULL_KLV
  /\ results = NoResults
  /\ phase = "game"
  /\ \E state \in GameSeeds :
       /\ bag = BagWith(game_init(state).tiles)
       /\ slot = SlotOf(game_init(state), "init", 1, 0, FALSE)

(* The tiles of a move that lays tiles of the rack: a blank stands for A *)
AsPlayed(tiles) == [i \in 1..Len(tiles) |-> IF tiles[i] = BLANK_MACHINE_LETTER THEN BLANKED(1)
                                            ELSE tiles[i]]

(* The first row of the board without a tile in column 0, BOARD_DIM if *)
(* there is none                                                        *)
FreeRow(b) ==
  IF \A row \in Lanes : ~board_is_empty(b, row, 0) THEN BOARD_DIM
  ELSE CHOOSE row \in Lanes :
         /\ board_is_empty(b, row, 0)
         /\ \A above \in 0..(row - 1) : ~board_is_empty(b, above, 0)

(* The placements asked for: the whole rack, its first tile, and its     *)
(* first tile followed by the asked tile, from column 0 of the free row  *)
WholeRackPlay(g, b) == MakeMove(DIR_HORIZONTAL, FreeRow(b), 0,
                                AsPlayed(RackTiles(g.players[g.current_player].rack)))

OtherPlays(g, b) ==
  LET tiles == RackTiles(g.players[g.current_player].rack)
  IN IF tiles = <<>> THEN {}
     ELSE { MakeMove(DIR_HORIZONTAL, FreeRow(b), 0, AsPlayed(<<tiles[1]>>)) }
          \cup { MakeMove(DIR_HORIZONTAL, FreeRow(b), 0, AsPlayed(<<tiles[1], asked>>)) :
                  asked \in AskedTiles }

(* game_play_move *)
GamePlayMove ==
  /\ FreeRow(board) < BOARD_DIM
  /\ \E whole \in BOOLEAN :
       /\ whole => slot.passes = 0 /\ slot.players[slot.current_player].rack.total > 0
       /\ ~whole => slot.others < MaxOtherCalls
       /\ \E move \in IF whole THEN {WholeRackPlay(GameOf(slot, bag), board)}
                        ELSE OtherPlays(GameOf(slot, bag), board) :
            LET played == game_play_move_in(GameOf(slot, bag), board, move)
            IN /\ board' = played.board
               /\ bag' = BagWith(played.game.tiles)
               /\ slot' = SlotOf(played.game, "play", played.ret,
                                 slot.others + (IF whole THEN 0 ELSE 1),
                                 slot.failed \/ played.ret = 0)
  /\ UNCHANGED <<rack, opp_rack, klv, results, phase>>

(* The tiles asked to be exchanged: the first tile of the rack, alone or *)
(* followed by the asked tile                                            *)
ExchangeInputs(g) ==
  LET tiles == RackTiles(g.players[g.current_player].rack)
  IN IF tiles = <<>> THEN {<<>>}
     ELSE { <<tiles[1]>> } \cup { <<tiles[1], asked>> : asked \in AskedTiles }

(* game_exchange *)
GameExchange ==
  /\ slot.others < MaxOtherCalls
  /\ \E tiles \in ExchangeInputs(GameOf(slot, bag)) :
       LET exchanged == game_exchange(GameOf(slot, bag), tiles)
       IN /\ bag' = BagWith(exchanged.game.tiles)
          /\ slot' = SlotOf(exchanged.game, "exchange", exchanged.ret, slot.others + 1,
                            slot.failed)
  /\ UNCHANGED <<board, rack, opp_rack, klv, results, phase>>

(* game_pass *)
GamePass ==
  /\ bag' = bag
  /\ slot' = SlotOf(game_pass(GameOf(slot, bag)), "pass", 1, slot.others, slot.failed)
  /\ UNCHANGED <<board, rack, opp_rack, klv, results, phase>>

NextGame == GamePlayMove \/ GameExchange \/ GamePass

SpecGame == InitGame /\ [][NextGame]_vars

(* C28: a call of game_play_move or game_exchange that returns 0 leaves   *)
(* the racks and the scores, the bag, the board, the pass counter and the *)
(* player to move as they were before the call.                           *)
C28_FailedCallChangesNothing ==
  [][(slot'.ret = 0 /\ slot'.op \in {"play", "exchange"}) =>
       /\ slot'.players = slot.players
       /\ bag' = bag
       /\ board' = board
       /\ slot'.passes = slot.passes
       /\ slot'.current_player = slot.current_player]_vars

(* The tiles on the board *)
TilesOnBoard(b) == Cardinality({i \in Squares : b.h_letters[i] # ALPHABET_EMPTY_SQUARE_MARKER})

(* C29: from game_init, after any calls of game_pass and game_exchange    *)
(* and successful calls of game_play_move with well-formed placements,    *)
(* the tiles in the bag, on the two racks and on the board are 100.       *)
C29_TilesConserved ==
  ~slot.failed =>
    /\ bag.count + slot.players[0].rack.total + slot.players[1].rack.total
         + TilesOnBoard(board) = 100
    /\ board.tiles_played = TilesOnBoard(board)

(* A game played to its end: the bag is empty and the last play emptied   *)
(* the rack of the player                                                 *)
C29_Witness ==
  /\ ~slot.failed
  /\ slot.op = "play"
  /\ slot.game_over = 1
  /\ bag.count = 0
  /\ TilesOnBoard(board) > 0

(* C30: whenever the pass counter is 6 or more, the game is over. *)
C30_SixPassesEndTheGame == slot.passes >= 6 => slot.game_over # 0

====
